---- MODULE Spec2Model ----
(***************************************************************************)
(* The text-to-chunk retrieval pipeline of ai_brain: the header-aware      *)
(* Markdown chunker of src/retrieval/chunker.py.  Text is modelled as      *)
(* sequences of one-character strings, so that strip(), split(), the       *)
(* heading pattern and the "\n" join are computed on characters.           *)
(*                                                                         *)
(*   Spec         chunk_md_file on one document, read line by line         *)
(*   SpecSplit    chunk_size 5 on a heading and 12 one-word lines          *)
(*   SpecFolder   chunk_all_md_files on a folder of small files            *)
(*   SpecStrip    strip_page_id on a set of names                          *)
(*   SpecOverlap  two chunkers, differing in chunk_overlap, on one file    *)
(*   SpecTitles   chunk_md_file on headings, one of them titled No Header  *)
(*   SpecEmbed    an EmbeddingManager: construction and encode calls       *)
(*   SpecIndex    a NotionProcessor and its RAGSearch on a vector index    *)
(*   SpecPipeline process_export, load_to_qdrant and setup_pipeline        *)
(*   SpecLoad     load_to_qdrant on intermediate files good and bad        *)
(*   SpecCli      handle_log_command of the ingestion CLI                  *)
(*   SpecSync     a NotionSyncManager on a database of two pages           *)
(***************************************************************************)
EXTENDS Integers, Sequences, FiniteSets, TLC

\* ------------------------------------------------------------------ bounds

\* lines of one document in the single-file specifications
MaxLines == 4
\* largest chunk_size argument handed to TextChunker (0 stands for None)
MaxChunkSize == 3
\* files of the folder handed to chunk_all_md_files
MaxFiles == 2
\* lines of one file of that folder
MaxFileLines == 2
\* lines of the file two chunkers are run on
MaxRunLines == 3
\* largest chunk_overlap argument handed to TextChunker (0 stands for None)
MaxOverlap == 1
\* chunks of one encode_chunks call
MaxBatch == 3
\* chunks of one encode_chunks call whose points are upserted
MaxUpsert == 2
\* handle_log_command calls of one process
MaxLogCalls == 2
\* readings of the clock at which Notion is edited or synchronized
MaxClock == 3

\* ------------------------------------------------------- program constants

\* RAG_CONFIG["chunk_size"]
DefaultChunkSize == 1000
\* RAG_CONFIG["chunk_overlap"]
DefaultChunkOverlap == 200
\* the length strip_page_id asks of an embedded identifier
PageIdLen == 32
\* the heading pattern's #{1,6}
MaxHeaderLevel == 6

\* Python's None (page_id of a file name without identifier, header before
\* the first heading); no text equals it
None == <<"None">>

\* ------------------------------------------------------------ text helpers

\* characters str.strip() and str.split() treat as white space
Whitespace == {" ", "\t", "\n"}

Min(a, b) == IF a < b THEN a ELSE b

\* n copies of the character c
Rep(c, n) == [i \in 1..n |-> c]

\* s[a..] for a 1-based position a
Tail_from(s, a) == SubSeq(s, a, Len(s))

\* number of leading white-space characters of s
RECURSIVE LeadingSpace(_)
LeadingSpace(s) ==
    IF s = <<>> \/ Head(s) \notin Whitespace THEN 0
    ELSE 1 + LeadingSpace(Tail(s))

\* number of trailing white-space characters of s
RECURSIVE TrailingSpace(_)
TrailingSpace(s) ==
    IF s = <<>> \/ s[Len(s)] \notin Whitespace THEN 0
    ELSE 1 + TrailingSpace(SubSeq(s, 1, Len(s) - 1))

\* str.strip()
strip(s) ==
    IF LeadingSpace(s) = Len(s) THEN <<>>
    ELSE SubSeq(s, LeadingSpace(s) + 1, Len(s) - TrailingSpace(s))

\* len(s.split()): the number of maximal runs of non-white-space characters
RECURSIVE WordCount(_)
WordCount(s) ==
    IF s = <<>> THEN 0
    ELSE IF Head(s) \in Whitespace THEN WordCount(Tail(s))
    ELSE IF Len(s) = 1 \/ s[2] \in Whitespace THEN 1 + WordCount(Tail(s))
    ELSE WordCount(Tail(s))

\* number of leading "#" characters of s
RECURSIVE LeadingHashes(_)
LeadingHashes(s) ==
    IF s = <<>> \/ Head(s) # "#" THEN 0
    ELSE 1 + LeadingHashes(Tail(s))

\* re.match(r"^(#{1,6}) (.+)", s) succeeds: one to six "#", then a space,
\* then at least one more character
IsHeader(s) ==
    LET n == LeadingHashes(s) IN
    /\ 1 <= n
    /\ n <= MaxHeaderLevel
    /\ Len(s) >= n + 2
    /\ s[n + 1] = " "

\* len(match.group(1))
HeaderLevel(s) == LeadingHashes(s)

\* match.group(2)
HeaderText(s) == Tail_from(s, LeadingHashes(s) + 2)

\* "\n".join(parts)
RECURSIVE Join(_)
Join(parts) ==
    IF parts = <<>> THEN <<>>
    ELSE IF Len(parts) = 1 THEN parts[1]
    ELSE parts[1] \o <<"\n">> \o Join(Tail(parts))

\* position of the last " " of name, 0 when it has none
RECURSIVE LastSpace(_)
LastSpace(name) ==
    IF name = <<>> THEN 0
    ELSE IF name[Len(name)] = " " THEN Len(name)
    ELSE LastSpace(SubSeq(name, 1, Len(name) - 1))

\* position of the first " " of name, 0 when it has none
RECURSIVE FirstSpace(_)
FirstSpace(name) ==
    IF name = <<>> THEN 0
    ELSE IF Head(name) = " " THEN 1
    ELSE LET k == FirstSpace(Tail(name)) IN IF k = 0 THEN 0 ELSE k + 1

\* (mutant) name.split(" ", 1): cut at the first space, not the last
split1(name) ==
    LET k == FirstSpace(name) IN
    IF k = 0 THEN <<name>>
    ELSE <<SubSeq(name, 1, k - 1), Tail_from(name, k + 1)>>

\* name.rsplit(" ", 1)
rsplit1(name) ==
    LET k == LastSpace(name) IN
    IF k = 0 THEN <<name>>
    ELSE <<SubSeq(name, 1, k - 1), Tail_from(name, k + 1)>>

\* strip_page_id(name), as the pair <<page, page_id>>
strip_page_id(name) ==
    LET parts == rsplit1(name) IN
    IF Len(parts) = 2 /\ Len(parts[2]) = PageIdLen
    THEN <<parts[1], parts[2]>>
    ELSE <<name, None>>

\* position of the last "." of name, 0 when it has none
RECURSIVE LastDot(_)
LastDot(name) ==
    IF name = <<>> THEN 0
    ELSE IF name[Len(name)] = "." THEN Len(name)
    ELSE LastDot(SubSeq(name, 1, Len(name) - 1))

\* os.path.splitext(name)[0]: the name up to its last ".", unless only
\* dots precede that one (a leading dot starts no extension)
splitext_root(name) ==
    LET k == LastDot(name) IN
    IF k = 0 \/ \A i \in 1..(k - 1) : name[i] = "." THEN name
    ELSE SubSeq(name, 1, k - 1)

\* filename.endswith('.md')
endswith_md(name) ==
    /\ Len(name) >= 3
    /\ Tail_from(name, Len(name) - 2) = <<".", "m", "d">>

\* ------------------------------------------------------------------ inputs

\* raw lines a document is made of: blank, body text (one word, padded
\* with two words, seven "#") and headings of levels 1 to 3
InputLines ==
    { <<" ">>,
      <<"a">>,
      <<" ", "b", " ", "c", " ">>,
      <<"#", "#", "#", "#", "#", "#", "#", " ", "F">>,
      <<"#", " ", "A">>,
      <<"#", "#", " ", "B">>,
      <<" ", "#", "#", " ", "C">>,
      <<"#", "#", "#", " ", "D">> }

\* the file handed to chunk_md_file in the single-file specifications
NotesFile == <<"N", " ">> \o Rep("0", PageIdLen) \o <<".", "m", "d">>

\* ------------------------------------------------------------------- state

VARIABLES
    chunk_size,         \* TextChunker.chunk_size
    chunk_overlap,      \* TextChunker.chunk_overlap
    page,               \* chunk_md_file: page
    page_id,            \* chunk_md_file: page_id
    lines,              \* the document's lines iterated so far
    header,             \* the current heading line, None before the first
    header_word_count,
    header_path,
    current_chunk,      \* the buffer: a sequence of stripped lines
    chunks,             \* the chunks emitted so far
    word_count,
    chunk_id,
    pc,                 \* "loop" in the for loop, "done" after the return
    base,               \* chunk_md_file: base, the argument of strip_page_id
    \* chunk_all_md_files
    folder_exists,      \* os.path.exists(input_folder)
    listing,            \* names os.listdir has yet to yield
    all_chunks,
    filename,           \* the loop variable of "for filename in os.listdir"
    fpc,                \* "start", "listdir", "in_file", "returned", "raised"
    \* a second TextChunker run on the same file
    run,                \* 1 or 2
    doc,                \* the file's lines, known once the first run read them
    first_run,          \* chunk_overlap and result of the first run
    \* history, not read by any action's guard or program assignment
    header_levels,      \* levels of the headings named by header_path
    cur,                \* how the buffer began: [seeded, origin]
    emitted,            \* per emitted chunk: [seeded, origin, levels]
    sources,            \* per chunk of all_chunks: the file it came from
    \* EmbeddingManager
    model_name,         \* EmbeddingManager.model_name
    model,              \* EmbeddingManager.model: None or the loaded model
    epc,                \* "unbuilt", "idle", "encode_chunks", "raised"
    enc_chunks,         \* encode_chunks: its argument chunks
    points,             \* encode_chunks: points
    returned,           \* the last encode call's return: [op, value]
    model_loads,        \* history: the SentenceTransformer(...) calls made
    \* the vector index behind QdrantClient
    collections,        \* name -> [size, distance, points], points by id
    index_up,           \* the index answers calls
    \* RAGSearch and NotionProcessor
    rag_model,          \* RAGSearch.model
    attrs,              \* NotionProcessor's instance attributes: name -> class
    outcome,            \* the last call: [op, args, status, value]
    \* history
    index_query,        \* what client.search was last handed
    create_calls,       \* the create_collection calls made
    indexed,            \* the chunks whose points were upserted
    \* the pipeline of NotionProcessor
    jsonl,              \* the intermediate chunk file: [exists, text]
    ppc,                \* "idle", "chunking", "load"
    pipe,               \* the call that runs chunk_all_md_files
    \* history
    saved,              \* the list save_chunks_to_jsonl wrote: [done, chunks]
    trace,              \* the stages the last pipeline call went through
    \* handle_log_command of the ingestion CLI
    cli_pc,             \* "idle", "classify", "lookup", "create", "print",
                        \* "returned", "exited"
    cli_text,           \* handle_log_command: text
    db_name,            \* handle_log_command: db_name
    exit_code,          \* <<>> while the process runs, else <<its exit code>>
    \* history of the process
    printed,            \* the messages printed so far
    created,            \* the arguments of the create_from_text calls so far
    \* Notion, as NotionSyncManager sees it
    notion_pages,       \* page id -> [title, last_edited_time, last_edited_by]
    now,                \* the clock datetime.now() and Notion read
    \* NotionSyncManager and its files
    metadata,           \* NotionSyncManager.metadata: [pages, last_sync]
    metadata_file,      \* the file at sync_metadata_file: [exists, data]
    md_files,           \* the Markdown files written: path -> [notion_id, ...]
    \* history
    sync_result,        \* the last NotionSyncManager call and what it saw
    pending             \* pages a sync_database call failed on beside a
                        \* processed one, not edited since

\* what chunk_md_file's loop neither reads nor writes
\* the state of the embedding, index and pipeline objects
embedder == <<model_name, model, epc, enc_chunks, points, returned,
              model_loads>>
indexing == <<collections, index_up, rag_model, attrs, outcome, index_query,
              create_calls, indexed>>
store == <<jsonl, ppc, pipe, saved, trace>>
\* the state of the ingestion CLI and of the Notion synchronization
ingestion == <<cli_pc, cli_text, db_name, exit_code, printed, created>>
syncing == <<notion_pages, now, metadata, metadata_file, md_files,
             sync_result, pending>>
apps == <<ingestion, syncing>>
retrieval == <<embedder, indexing, store, apps>>

others == <<base, folder_exists, listing, all_chunks, filename, fpc, run,
            doc, first_run, sources, retrieval>>

vars == <<chunk_size, chunk_overlap, page, page_id, lines, header,
          header_word_count, header_path, current_chunk, chunks, word_count,
          chunk_id, pc, header_levels, cur, emitted, others>>

\* no chunk_all_md_files call is under way
NoFolder ==
    /\ folder_exists = TRUE
    /\ listing = {}
    /\ all_chunks = <<>>
    /\ filename = None
    /\ sources = <<>>
    /\ fpc = "none"

\* no handle_log_command call has been made
NoCli ==
    /\ cli_pc = "idle"
    /\ cli_text = None
    /\ db_name = None
    /\ exit_code = <<>>
    /\ printed = <<>>
    /\ created = <<>>

\* no NotionSyncManager has been constructed
NoSync ==
    /\ notion_pages = [p \in {} |-> p]
    /\ now = 0
    /\ metadata = [pages |-> [p \in {} |-> p], last_sync |-> <<>>]
    /\ metadata_file = [exists |-> FALSE, data |-> [none |-> TRUE]]
    /\ md_files = [f \in {} |-> f]
    /\ sync_result = [op |-> "none"]
    /\ pending = {}

\* no EmbeddingManager, RAGSearch or NotionProcessor has been constructed
Unbuilt ==
    /\ NoCli
    /\ NoSync
    /\ model_name = None
    /\ model = None
    /\ epc = "unbuilt"
    /\ enc_chunks = <<>>
    /\ points = <<>>
    /\ returned = [op |-> "none", value |-> <<>>]
    /\ model_loads = 0
    /\ collections = [n \in {} |-> n]
    /\ index_up = TRUE
    /\ rag_model = None
    /\ attrs = [n \in {} |-> n]
    /\ outcome = [op |-> "none", args |-> [none |-> TRUE],
                  status |-> "none", value |-> [none |-> TRUE]]
    /\ index_query = [vector |-> [model |-> None, text |-> <<>>],
                      filter |-> [none |-> TRUE], limit |-> 0]
    /\ create_calls = 0
    /\ indexed = {}
    /\ jsonl = [exists |-> FALSE, text |-> <<>>]
    /\ ppc = "idle"
    /\ pipe = "none"
    /\ saved = [done |-> FALSE, chunks |-> <<>>]
    /\ trace = <<>>

\* the first run of a chunker on its file
FirstRun ==
    /\ run = 1
    /\ doc = <<>>
    /\ first_run = None

\* a TextChunker(size_arg, overlap_arg) that has not opened a file
IdleChunker(size_arg, overlap_arg) ==
    /\ chunk_size = IF size_arg = 0 THEN DefaultChunkSize ELSE size_arg
    /\ chunk_overlap = IF overlap_arg = 0 THEN DefaultChunkOverlap ELSE overlap_arg
    /\ page = None
    /\ page_id = None
    /\ lines = <<>>
    /\ header = None
    /\ header_word_count = 0
    /\ header_path = <<>>
    /\ current_chunk = <<>>
    /\ chunks = <<>>
    /\ word_count = 0
    /\ chunk_id = 0
    /\ header_levels = <<>>
    /\ cur = [seeded |-> FALSE, origin |-> 0]
    /\ emitted = <<>>

\* (mutant) chunk_id carried on from the chunks gathered so far
EntryChunkIdGlobal == Len(all_chunks) + 1

\* chunk_id = 1 at the top of chunk_md_file
EntryChunkId == 1

\* TextChunker.__init__ followed by the prologue of chunk_md_file
InitChunker(size_arg, overlap_arg, file_name) ==
    /\ chunk_size = IF size_arg = 0 THEN DefaultChunkSize ELSE size_arg
    /\ chunk_overlap = IF overlap_arg = 0 THEN DefaultChunkOverlap ELSE overlap_arg
    /\ base = splitext_root(file_name)
    /\ page = strip_page_id(splitext_root(file_name))[1]
    /\ page_id = strip_page_id(splitext_root(file_name))[2]
    /\ lines = <<>>
    /\ header = None
    /\ header_word_count = 0
    /\ header_path = <<>>
    /\ current_chunk = <<>>
    /\ chunks = <<>>
    /\ word_count = 0
    /\ chunk_id = EntryChunkId
    /\ pc = "loop"
    /\ header_levels = <<>>
    /\ cur = [seeded |-> FALSE, origin |-> 0]
    /\ emitted = <<>>

Init ==
    /\ \E size_arg \in 0..MaxChunkSize : InitChunker(size_arg, 0, NotesFile)
    /\ NoFolder
    /\ FirstRun
    /\ Unbuilt

\* -------------------------------------------------- chunk_md_file's helpers

\* ["No Header"], the header_path of a chunk above the first heading
NoHeader == <<<<"N", "o", " ", "H", "e", "a", "d", "e", "r">>>>

\* (mutant) a chunk dictionary that takes header_path.copy() as it is,
\* without the ["No Header"] default
NewChunkBarePath(buf, path, id) ==
    [ page |-> page,
      page_id |-> page_id,
      chunk_id |-> id,
      header_path |-> path,
      content |-> strip(Join(buf)) ]

\* the chunk flush_chunk appends for the buffer buf
NewChunk(buf, path, id) ==
    [ page |-> page,
      page_id |-> page_id,
      chunk_id |-> id,
      header_path |-> IF path # <<>> THEN path ELSE NoHeader,
      content |-> strip(Join(buf)) ]

\* (mutant) flush_chunk without its "if content:" test
FlushedChunksUnchecked(buf, path, id) ==
    Append(chunks, NewChunk(buf, path, id))

\* (mutant) flush_chunk that keeps only buffers of two or more lines
FlushedChunksSkipShort(buf, path, id) ==
    IF Len(buf) > 1 THEN Append(chunks, NewChunk(buf, path, id))
    ELSE chunks

\* flush_chunk() on the buffer buf: the chunk list after it
FlushedChunks(buf, path, id) ==
    IF strip(Join(buf)) # <<>> THEN Append(chunks, NewChunk(buf, path, id))
    ELSE chunks

\* (mutant) flush_chunk with "chunk_id += 1" outside its "if content:"
FlushedIdAlways(buf, id) == id + 1

\* flush_chunk() on the buffer buf: chunk_id after it
FlushedId(buf, id) ==
    IF strip(Join(buf)) # <<>> THEN id + 1 ELSE id

\* the history entry that goes with flush_chunk's append, for a buffer
\* that began as began
FlushedEmitted(buf, began) ==
    IF FlushedChunks(buf, header_path, chunk_id) # chunks
    THEN Append(emitted, [seeded |-> began.seeded, origin |-> began.origin,
                          levels |-> header_levels])
    ELSE emitted

\* (mutant) header_path[: level] in place of header_path[: level - 1]
NewHeaderPathOffByOne(path, level, text) ==
    Append(SubSeq(path, 1, Min(level, Len(path))), text)

\* header_path[: level - 1] followed by header_text
NewHeaderPath(path, level, text) ==
    Append(SubSeq(path, 1, Min(level - 1, Len(path))), text)

\* (mutant) a re-seeded buffer that also carries over the last
\* chunk_overlap lines buffered before the split
SeededChunkOverlap ==
    (IF header # None THEN <<header>> ELSE <<>>)
        \o SubSeq(current_chunk,
                  Len(current_chunk) - Min(chunk_overlap, Len(current_chunk)) + 1,
                  Len(current_chunk))

\* start_new_chunk_with_header(): the buffer and the counter after it
SeededChunk == IF header # None THEN <<header>> ELSE <<>>

\* (mutant) start_new_chunk_with_header that leaves the counter as
\* flush_chunk set it, at the words of an empty buffer
SeededCountReset == WordCount(<<>>)

\* (mutant) start_new_chunk_with_header that counts the words of the
\* heading's title only, without its "#" marker
SeededCountTitleOnly == IF header # None THEN header_word_count - 1 ELSE 0

SeededCount == IF header # None THEN header_word_count ELSE 0

\* ------------------------------------------------ chunk_md_file's for loop

\* a line that is empty once stripped: continue
SkipBlank(line) ==
    /\ pc = "loop"
    /\ strip(line) = <<>>
    /\ lines' = Append(lines, line)
    /\ UNCHANGED <<others, chunk_size, chunk_overlap, page, page_id, header,
                   header_word_count, header_path, current_chunk, chunks,
                   word_count, chunk_id, pc, header_levels, cur, emitted>>

\* a heading: flush, record the heading, rebuild the path, buffer the line
ReadHeader(line) ==
    LET stripped == strip(line)
        level == HeaderLevel(stripped)
    IN
    /\ pc = "loop"
    /\ stripped # <<>>
    /\ IsHeader(stripped)
    /\ lines' = Append(lines, line)
    /\ chunks' = FlushedChunks(current_chunk, header_path, chunk_id)
    /\ chunk_id' = FlushedId(current_chunk, chunk_id)
    /\ emitted' = FlushedEmitted(current_chunk, cur)
    /\ header' = stripped
    /\ header_word_count' = WordCount(stripped)
    /\ header_path' = NewHeaderPath(header_path, level, HeaderText(stripped))
    /\ header_levels' = NewHeaderPath(header_levels, level, level)
    /\ current_chunk' = <<stripped>>
    /\ word_count' = WordCount(stripped)
    /\ cur' = [seeded |-> FALSE, origin |-> Len(lines) + 1]
    /\ UNCHANGED <<others, chunk_size, chunk_overlap, page, page_id, pc>>

\* body text below the budget: buffer the line
ReadContent(line) ==
    LET stripped == strip(line) IN
    /\ pc = "loop"
    /\ stripped # <<>>
    /\ ~IsHeader(stripped)
    /\ word_count + WordCount(stripped) < chunk_size
    /\ lines' = Append(lines, line)
    /\ current_chunk' = Append(current_chunk, stripped)
    /\ word_count' = word_count + WordCount(stripped)
    /\ cur' = IF current_chunk = <<>>
              THEN [seeded |-> FALSE, origin |-> Len(lines) + 1]
              ELSE cur
    /\ UNCHANGED <<others, chunk_size, chunk_overlap, page, page_id, header,
                   header_word_count, header_path, chunks, chunk_id, pc,
                   header_levels, emitted>>

\* body text that fills the budget: buffer the line, flush, re-seed the
\* buffer with the current heading
ReadContentSplit(line) ==
    LET stripped == strip(line)
        buf == Append(current_chunk, stripped)
    IN
    /\ pc = "loop"
    /\ stripped # <<>>
    /\ ~IsHeader(stripped)
    /\ word_count + WordCount(stripped) >= chunk_size
    /\ lines' = Append(lines, line)
    /\ chunks' = FlushedChunks(buf, header_path, chunk_id)
    /\ chunk_id' = FlushedId(buf, chunk_id)
    /\ emitted' = FlushedEmitted(buf, IF current_chunk = <<>>
                                      THEN [seeded |-> FALSE, origin |-> Len(lines) + 1]
                                      ELSE cur)
    /\ current_chunk' = SeededChunk
    /\ word_count' = SeededCount
    /\ cur' = [seeded |-> header # None, origin |-> 0]
    /\ UNCHANGED <<others, chunk_size, chunk_overlap, page, page_id, header,
                   header_word_count, header_path, pc, header_levels>>

\* the end of the document: flush what is left and return chunks
Return ==
    /\ pc = "loop"
    /\ chunks' = FlushedChunks(current_chunk, header_path, chunk_id)
    /\ chunk_id' = FlushedId(current_chunk, chunk_id)
    /\ emitted' = FlushedEmitted(current_chunk, cur)
    /\ current_chunk' = <<>>
    /\ word_count' = 0
    /\ pc' = "done"
    /\ cur' = [seeded |-> FALSE, origin |-> 0]
    /\ UNCHANGED <<others, chunk_size, chunk_overlap, page, page_id, lines, header,
                   header_word_count, header_path, header_levels>>

\* one document of at most MaxLines lines, read line by line
MoreLines == Len(lines) < MaxLines

Next ==
    \/ \E line \in InputLines : MoreLines /\ SkipBlank(line)
    \/ \E line \in InputLines : MoreLines /\ ReadHeader(line)
    \/ \E line \in InputLines : MoreLines /\ ReadContent(line)
    \/ \E line \in InputLines : MoreLines /\ ReadContentSplit(line)
    \/ Return

Spec == Init /\ [][Next]_vars

\* ------------------------------ one section under chunk_size 5 (SpecSplit)

\* heading lines of two to five words (the "#" marker is a word of the line)
SplitHeadings ==
    { <<"#", " ", "T">>,
      <<"#", "#", " ", "T", " ", "u">>,
      <<"#", " ", "T", " ", "u", " ", "v">>,
      <<"#", " ", "T", " ", "u", " ", "v", " ", "w">> }

\* one-word content lines
OneWordLines == { <<"a">>, <<" ", "b">> }

\* TextChunker(chunk_size=5) on a document that is one heading line and
\* up to 12 one-word content lines
InitSplit == InitChunker(5, 0, NotesFile) /\ NoFolder /\ FirstRun /\ Unbuilt

NextSplit ==
    \/ \E line \in SplitHeadings : lines = <<>> /\ ReadHeader(line)
    \/ \E line \in OneWordLines :
          Len(lines) \in 1..12 /\ ReadContent(line)
    \/ \E line \in OneWordLines :
          Len(lines) \in 1..12 /\ ReadContentSplit(line)
    \/ Return

SpecSplit == InitSplit /\ [][NextSplit]_vars

\* ------------------------------------- chunk_all_md_files (SpecFolder)

\* names os.listdir may yield: two Markdown files of the same title, with
\* and without identifier, a Markdown file that is all extension, and a
\* file that is not Markdown
FolderNames ==
    { <<"N", ".", "m", "d">>,
      NotesFile,
      <<".", "m", "d">>,
      <<"N", ".", "t", "x", "t">> }

\* raw lines of the files of the folder
FolderLines == { <<"#", " ", "A">>, <<"a">> }

\* a TextChunker and a folder, chunk_all_md_files about to run
InitFolder ==
    /\ \E size_arg \in {0, 1} : IdleChunker(size_arg, 0)
    /\ base = None
    /\ pc = "idle"
    /\ folder_exists \in BOOLEAN
    /\ listing \in { S \in SUBSET FolderNames : Cardinality(S) <= MaxFiles }
    /\ ~folder_exists => listing = {}
    /\ all_chunks = <<>>
    /\ filename = None
    /\ sources = <<>>
    /\ fpc = "start"
    /\ FirstRun
    /\ Unbuilt

\* the locals of chunk_md_file: unchanged outside a call of it
locals == <<page, page_id, lines, header, header_word_count, header_path,
            current_chunk, chunks, word_count, chunk_id, pc, base,
            header_levels, cur, emitted>>

\* if not os.path.exists(input_folder): raise FileNotFoundError
FolderNotFound ==
    /\ fpc = "start"
    /\ ~folder_exists
    /\ fpc' = "raised"
    /\ UNCHANGED <<retrieval, locals, chunk_size, chunk_overlap, folder_exists, listing,
                   all_chunks, filename, run, doc, first_run, sources>>

\* the folder exists: enter the loop over os.listdir(input_folder)
ListFolder ==
    /\ fpc = "start"
    /\ folder_exists
    /\ fpc' = "listdir"
    /\ UNCHANGED <<retrieval, locals, chunk_size, chunk_overlap, folder_exists, listing,
                   all_chunks, filename, run, doc, first_run, sources>>

\* a name that does not end in ".md": next name
SkipFile(f) ==
    /\ fpc = "listdir"
    /\ f \in listing
    /\ ~endswith_md(f)
    /\ listing' = listing \ {f}
    /\ filename' = f
    /\ UNCHANGED <<retrieval, locals, chunk_size, chunk_overlap, folder_exists,
                   all_chunks, fpc, run, doc, first_run, sources>>

\* a name that ends in ".md": call chunk_md_file on it (its prologue)
OpenFile(f) ==
    /\ fpc = "listdir"
    /\ f \in listing
    /\ endswith_md(f)
    /\ listing' = listing \ {f}
    /\ filename' = f
    /\ fpc' = "in_file"
    /\ base' = splitext_root(f)
    /\ page' = strip_page_id(splitext_root(f))[1]
    /\ page_id' = strip_page_id(splitext_root(f))[2]
    /\ lines' = <<>>
    /\ header' = None
    /\ header_word_count' = 0
    /\ header_path' = <<>>
    /\ current_chunk' = <<>>
    /\ chunks' = <<>>
    /\ word_count' = 0
    /\ chunk_id' = EntryChunkId
    /\ pc' = "loop"
    /\ header_levels' = <<>>
    /\ cur' = [seeded |-> FALSE, origin |-> 0]
    /\ emitted' = <<>>
    /\ UNCHANGED <<retrieval, chunk_size, chunk_overlap, folder_exists, all_chunks, run,
                   doc, first_run, sources>>

\* all_chunks.extend(chunks) once chunk_md_file has returned; the locals of
\* the finished call are gone
ExtendAll ==
    /\ fpc = "in_file"
    /\ pc = "done"
    /\ all_chunks' = all_chunks \o chunks
    /\ sources' = sources \o [i \in 1..Len(chunks) |-> filename]
    /\ fpc' = "listdir"
    /\ base' = None
    /\ page' = None
    /\ page_id' = None
    /\ lines' = <<>>
    /\ header' = None
    /\ header_word_count' = 0
    /\ header_path' = <<>>
    /\ current_chunk' = <<>>
    /\ chunks' = <<>>
    /\ word_count' = 0
    /\ chunk_id' = 0
    /\ pc' = "idle"
    /\ header_levels' = <<>>
    /\ cur' = [seeded |-> FALSE, origin |-> 0]
    /\ emitted' = <<>>
    /\ UNCHANGED <<retrieval, chunk_size, chunk_overlap, folder_exists, listing,
                   filename, run, doc, first_run>>

\* os.listdir is exhausted: return all_chunks
ReturnAll ==
    /\ fpc = "listdir"
    /\ listing = {}
    /\ fpc' = "returned"
    /\ UNCHANGED <<retrieval, locals, chunk_size, chunk_overlap, folder_exists, listing,
                   all_chunks, filename, run, doc, first_run, sources>>

\* one file of at most MaxFileLines lines, read line by line
MoreFileLines == fpc = "in_file" /\ Len(lines) < MaxFileLines

NextFolder ==
    \/ FolderNotFound
    \/ ListFolder
    \/ \E f \in FolderNames : SkipFile(f)
    \/ \E f \in FolderNames : OpenFile(f)
    \/ \E line \in FolderLines : MoreFileLines /\ ReadHeader(line)
    \/ \E line \in FolderLines : MoreFileLines /\ ReadContent(line)
    \/ \E line \in FolderLines : MoreFileLines /\ ReadContentSplit(line)
    \/ fpc = "in_file" /\ Return
    \/ ExtendAll
    \/ ReturnAll

SpecFolder == InitFolder /\ [][NextFolder]_vars

\* ------------------------- headings and their titles (SpecTitles)

\* raw lines of a document whose headings include one titled "No Header"
TitleLines ==
    { <<"#", " ", "N", "o", " ", "H", "e", "a", "d", "e", "r">>,
      <<"#", " ", "A">>,
      <<"#", "#", " ", "B">>,
      <<"a">> }

\* TextChunker(size_arg).chunk_md_file(NotesFile) under way
InitTitles ==
    /\ \E size_arg \in {0, 3} : InitChunker(size_arg, 0, NotesFile)
    /\ NoFolder
    /\ FirstRun
    /\ Unbuilt

NextTitles ==
    \/ \E line \in TitleLines : MoreLines /\ ReadHeader(line)
    \/ \E line \in TitleLines : MoreLines /\ ReadContent(line)
    \/ \E line \in TitleLines : MoreLines /\ ReadContentSplit(line)
    \/ Return

SpecTitles == InitTitles /\ [][NextTitles]_vars

\* ------------------------- two chunkers on the same file (SpecOverlap)

\* raw lines of the file
RunLines == { <<" ">>, <<"a">>, <<" ", "b", " ", "c", " ">>, <<"#", " ", "A">> }

\* TextChunker(size_arg, overlap_arg).chunk_md_file(NotesFile) under way
InitOverlap ==
    /\ \E size_arg \in 0..MaxChunkSize, overlap_arg \in 0..MaxOverlap :
          InitChunker(size_arg, overlap_arg, NotesFile)
    /\ NoFolder
    /\ FirstRun
    /\ Unbuilt

\* the lines the for loop may meet next: any line while the first run
\* reads the file, the file's next line in the second run
LinesAhead ==
    IF run = 1
    THEN IF Len(lines) < MaxRunLines THEN RunLines ELSE {}
    ELSE IF Len(lines) < Len(doc) THEN {doc[Len(lines) + 1]} ELSE {}

\* the first run has returned: a second TextChunker with the same
\* chunk_size and chunk_overlap overlap_arg starts chunk_md_file on the file
SecondRun(overlap_arg) ==
    /\ run = 1
    /\ pc = "done"
    /\ run' = 2
    /\ doc' = lines
    /\ first_run' = [chunk_overlap |-> chunk_overlap, chunks |-> chunks]
    /\ chunk_overlap' = IF overlap_arg = 0 THEN DefaultChunkOverlap ELSE overlap_arg
    /\ lines' = <<>>
    /\ header' = None
    /\ header_word_count' = 0
    /\ header_path' = <<>>
    /\ current_chunk' = <<>>
    /\ chunks' = <<>>
    /\ word_count' = 0
    /\ chunk_id' = EntryChunkId
    /\ pc' = "loop"
    /\ header_levels' = <<>>
    /\ cur' = [seeded |-> FALSE, origin |-> 0]
    /\ emitted' = <<>>
    /\ UNCHANGED <<retrieval, chunk_size, page, page_id, base, folder_exists, listing,
                   all_chunks, filename, fpc, sources>>

NextOverlap ==
    \/ \E line \in LinesAhead : SkipBlank(line)
    \/ \E line \in LinesAhead : ReadHeader(line)
    \/ \E line \in LinesAhead : ReadContent(line)
    \/ \E line \in LinesAhead : ReadContentSplit(line)
    \/ (run = 1 \/ lines = doc) /\ Return
    \/ \E overlap_arg \in 0..MaxOverlap : SecondRun(overlap_arg)

SpecOverlap == InitOverlap /\ [][NextOverlap]_vars

\* ------------------------------------------- strip_page_id (SpecStrip)

\* names handed to strip_page_id: with no, one or two spaces before a last
\* part of 0, 1 or about PageIdLen characters, and with a trailing part
StripNames ==
    { pre \o sep \o Rep("0", n) \o post :
        pre \in { <<>>, <<"P">>, <<"P", " ", "Q">> },
        sep \in { <<>>, <<" ">> },
        n \in {0, 1} \cup ((PageIdLen - 2)..(PageIdLen + 1)),
        post \in { <<>>, <<" ">>, <<" ", "z">> } }

\* a call strip_page_id(base) about to run
InitStrip ==
    /\ base \in StripNames
    /\ pc = "strip"
    /\ IdleChunker(0, 0)
    /\ NoFolder
    /\ FirstRun
    /\ Unbuilt

\* page, page_id = strip_page_id(base)
StripPageId ==
    /\ pc = "strip"
    /\ page' = strip_page_id(base)[1]
    /\ page_id' = strip_page_id(base)[2]
    /\ pc' = "stripped"
    /\ UNCHANGED <<others, chunk_size, chunk_overlap, lines, header,
                   header_word_count, header_path, current_chunk, chunks,
                   word_count, chunk_id, header_levels, cur, emitted>>

NextStrip == StripPageId

SpecStrip == InitStrip /\ [][NextStrip]_vars

\* ------------------------------------------------------ EmbeddingManager
\* src/retrieval/embeddings.py.  The sentence-transformers model is outside
\* the repository: a loaded model is named by its model name, and the vector
\* it computes for a text is the pair of that name and the text, so that
\* encoding is a function of the model and the text and nothing else.

\* RAG_CONFIG["embedding_model"]
DefaultEmbeddingModel == <<"all-MiniLM-L6-v2">>

\* self.model.encode(text).tolist()
Encode(m, text) == [model |-> m, text |-> text]

\* (mutant) the point takes the position enumerate() gives the chunk
PointIdFromEnumerate(i, chunk) == i - 1

\* id=chunk["chunk_id"]
PointId(i, chunk) == chunk.chunk_id

\* PointStruct(id=..., vector=embedding, payload={...}) of the i-th chunk
PointStruct(m, i, chunk) ==
    [ id |-> PointId(i, chunk),
      vector |-> Encode(m, chunk.content),
      payload |-> [ page |-> chunk.page,
                    page_id |-> chunk.page_id,
                    header_path |-> chunk.header_path,
                    content |-> chunk.content ] ]

\* chunks handed to encode_chunks: two chunks of a page without identifier
\* and the first chunk of a page with one
EmbedChunks ==
    { [ page |-> <<"N">>, page_id |-> None, chunk_id |-> 1,
        header_path |-> NoHeader, content |-> <<"a">> ],
      [ page |-> <<"N">>, page_id |-> None, chunk_id |-> 2,
        header_path |-> << <<"A">> >>,
        content |-> <<"#", " ", "A", "\n", "a">> ],
      [ page |-> <<"M">>, page_id |-> Rep("0", PageIdLen), chunk_id |-> 1,
        header_path |-> << <<"A">>, <<"B">> >>,
        content |-> <<"#", "#", " ", "B">> ] }

\* the chunk lists handed to encode_chunks
EmbedBatches == UNION { [1..n -> EmbedChunks] : n \in 0..MaxBatch }

\* the texts handed to encode_text
EmbedTexts == { <<"a">>, <<"a", " ", "b">> }

\* the model_name arguments of EmbeddingManager(...), None for the default
ModelNameArgs == { None, <<"other-model">> }

InitEmbed ==
    /\ IdleChunker(0, 0)
    /\ base = None
    /\ pc = "idle"
    /\ NoFolder
    /\ FirstRun
    /\ Unbuilt

\* EmbeddingManager(model_name): __init__ sets model_name, sets model to
\* None and calls _load_model, which raises when the model cannot be had
Construct(name_arg, loadable) ==
    /\ epc = "unbuilt"
    /\ model_name' = IF name_arg # None THEN name_arg ELSE DefaultEmbeddingModel
    /\ model_loads' = model_loads + 1
    /\ IF loadable
         THEN model' = model_name' /\ epc' = "idle"
         ELSE model' = None /\ epc' = "raised"
    /\ UNCHANGED <<enc_chunks, points, returned>>

\* the model after "if self.model is None: self._load_model()"
LoadedModel == IF model = None THEN model_name ELSE model

\* the _load_model calls after that statement
LoadsAfterGuard == IF model = None THEN model_loads + 1 ELSE model_loads

\* encode_text(text)
EncodeText(text) ==
    /\ epc = "idle"
    /\ model' = LoadedModel
    /\ model_loads' = LoadsAfterGuard
    /\ returned' = [op |-> "encode_text", value |-> Encode(model', text)]
    /\ UNCHANGED <<model_name, epc, enc_chunks, points>>

\* encode_chunks(chunks) up to its loop: points = []
EncodeChunksCall(chs) ==
    /\ epc = "idle"
    /\ model' = LoadedModel
    /\ model_loads' = LoadsAfterGuard
    /\ enc_chunks' = chs
    /\ points' = <<>>
    /\ epc' = "encode_chunks"
    /\ UNCHANGED <<model_name, returned>>

\* one pass of "for i, chunk in enumerate(chunks)": points.append(point)
EncodeChunk ==
    /\ epc = "encode_chunks"
    /\ Len(points) < Len(enc_chunks)
    /\ LET i == Len(points) + 1
       IN points' = Append(points, PointStruct(model, i, enc_chunks[i]))
    /\ UNCHANGED <<model_name, model, epc, enc_chunks, returned, model_loads>>

\* return points
EncodeChunksReturn ==
    /\ epc = "encode_chunks"
    /\ Len(points) = Len(enc_chunks)
    /\ returned' = [op |-> "encode_chunks", value |-> points]
    /\ epc' = "idle"
    /\ UNCHANGED <<model_name, model, enc_chunks, points, model_loads>>

\* the chunker and the folder it reads
chunking == <<chunk_size, chunk_overlap, page, page_id, lines, header,
              header_word_count, header_path, current_chunk, chunks,
              word_count, chunk_id, pc, header_levels, cur, emitted, base,
              folder_exists, listing, all_chunks, filename, fpc, run, doc,
              first_run, sources, apps>>

NextEmbed ==
    \/ \E name_arg \in ModelNameArgs, loadable \in BOOLEAN :
          Construct(name_arg, loadable) /\ UNCHANGED <<chunking, indexing, store>>
    \/ \E text \in EmbedTexts : EncodeText(text) /\ UNCHANGED <<chunking, indexing, store>>
    \/ \E chs \in EmbedBatches : EncodeChunksCall(chs) /\ UNCHANGED <<chunking, indexing, store>>
    \/ EncodeChunk /\ UNCHANGED <<chunking, indexing, store>>
    \/ EncodeChunksReturn /\ UNCHANGED <<chunking, indexing, store>>

SpecEmbed == InitEmbed /\ [][NextEmbed]_vars

\* ------------------------------------------- RAGSearch and NotionProcessor
\* src/retrieval/search.py and src/retrieval/rag_pipeline.py.  The Qdrant
\* server is outside the repository: it is modelled as a map of named
\* collections whose points are kept by id, searched by similarity under a
\* must / must_not payload filter, and which fails every call while it is
\* down.

\* QDRANT_COLLECTION_NAME
CollectionName == <<"notion_chunks">>

\* VectorParams(size=384, ...)
VectorSize == 384

\* filters=None
NoneFilter == [none |-> TRUE]

\* the collection create_collection makes
NewCollection == [size |-> VectorSize, distance |-> "Cosine", points |-> <<>>]

\* self.collection_name in collection_names
HasCollection == CollectionName \in DOMAIN collections

\* (mutant) setup_collection without its "already exists" test
HasCollectionNever == FALSE

\* self.collection_name in collection_names, as setup_collection tests it
CollectionExists == HasCollection

\* the points of the collection, by id
IndexedPoints == collections[CollectionName].points

\* a call that returned value v
Returned(op, args, v) ==
    [op |-> op, args |-> args, status |-> "returned", value |-> v]

\* a call that ended in exception e
Raised(op, args, e) ==
    [op |-> op, args |-> args, status |-> "raised", value |-> e]

\* one filter condition {"key": k, "match": {"value": v}} against a point
Matches(pt, cond) ==
    /\ cond.key \in DOMAIN pt.payload
    /\ pt.payload[cond.key] = cond.value

\* a point passes the filter: every must condition and no must_not one
Passes(pt, f) ==
    \/ f = NoneFilter
    \/ /\ \A k \in 1..Len(f.must) : Matches(pt, f.must[k])
       /\ \A k \in 1..Len(f.must_not) : ~Matches(pt, f.must_not[k])

\* the characters two texts have in common at the same place
RECURSIVE Agreement(_, _)
Agreement(t, u) ==
    IF t = <<>> \/ u = <<>> THEN 0
    ELSE (IF Head(t) = Head(u) THEN 1 ELSE 0) + Agreement(Tail(t), Tail(u))

\* the score of a stored vector against the query vector, in hundredths:
\* 100 for the same vector and less for any other
Similarity(q, v) ==
    IF q = v THEN 100
    ELSE IF q.model # v.model THEN 0
    ELSE Min(Agreement(q.text, v.text), 99)

\* client.search: the ids of the best "limit" points that pass the filter,
\* best first; points of equal score come in any order
Ranked(pts, q, f, limit) ==
    LET hits == { id \in DOMAIN pts : Passes(pts[id], f) }
        n == Min(limit, Cardinality(hits))
        score(id) == Similarity(q, pts[id].vector)
    IN { r \in [1..n -> hits] :
            /\ \A i, j \in 1..n : i < j =>
                  r[i] # r[j] /\ score(r[i]) >= score(r[j])
            /\ \A id \in hits : \A i \in 1..n :
                  (\A j \in 1..n : r[j] # id) => score(id) <= score(r[i]) }

\* the formatted result of one scored point
Formatted(q, pt) ==
    [ score |-> Similarity(q, pt.vector),
      content |-> pt.payload.content,
      page |-> pt.payload.page,
      page_id |-> pt.payload.page_id,
      header_path |-> pt.payload.header_path ]

\* (mutant) search without its filter
SearchFilterDropped(filters) == NoneFilter

\* search_filter = filters
SearchFilter(filters) == filters

\* client.upsert(points): insert or overwrite by id, point after point
RECURSIVE Upserted(_, _)
Upserted(pts, batch) ==
    IF batch = <<>> THEN pts
    ELSE LET pt == Head(batch)
             rest == [id \in DOMAIN pts \ {pt.id} |-> pts[id]]
         IN Upserted([id \in DOMAIN rest \cup {pt.id} |->
                         IF id = pt.id
                           THEN [vector |-> pt.vector, payload |-> pt.payload]
                           ELSE rest[id]],
                     Tail(batch))

\* encode_chunks(chunks) as a whole
RECURSIVE EncodedPoints(_, _, _)
EncodedPoints(m, chs, i) ==
    IF i > Len(chs) THEN <<>>
    ELSE <<PointStruct(m, i, chs[i])>> \o EncodedPoints(m, chs, i + 1)

\* the instance attributes NotionProcessor.__init__ binds
ProcessorAttrs ==
    [ client |-> "QdrantClient",
      chunker |-> "TextChunker",
      embedding_manager |-> "EmbeddingManager",
      search |-> "RAGSearch" ]

\* the methods class NotionProcessor defines
ProcessorMethods ==
    { "setup", "process_export", "load_to_qdrant", "setup_pipeline",
      "search", "get_stats" }

\* processor.<name>: the instance attribute if there is one, else the method
GetAttr(name) ==
    IF name \in DOMAIN attrs THEN attrs[name]
    ELSE IF name \in ProcessorMethods THEN "method"
    ELSE "AttributeError"

\* the state after NotionProcessor(): an EmbeddingManager and a RAGSearch,
\* each with its model loaded
Built ==
    /\ NoCli
    /\ NoSync
    /\ model_name = DefaultEmbeddingModel
    /\ model = DefaultEmbeddingModel
    /\ epc = "idle"
    /\ enc_chunks = <<>>
    /\ points = <<>>
    /\ returned = [op |-> "none", value |-> <<>>]
    /\ model_loads = 1
    /\ rag_model = DefaultEmbeddingModel
    /\ attrs = ProcessorAttrs
    /\ outcome = [op |-> "none", args |-> [none |-> TRUE],
                  status |-> "none", value |-> [none |-> TRUE]]
    /\ index_query = [vector |-> [model |-> None, text |-> <<>>],
                      filter |-> NoneFilter, limit |-> 0]
    /\ create_calls = 0

\* no pipeline call has been made and there is no intermediate file
NoStore ==
    /\ jsonl = [exists |-> FALSE, text |-> <<>>]
    /\ ppc = "idle"
    /\ pipe = "none"
    /\ saved = [done |-> FALSE, chunks |-> <<>>]
    /\ trace = <<>>

\* the chunks indexed and searched for
FoxText == <<"t", "h", "e", " ", "q", "u", "i", "c", "k", " ",
             "b", "r", "o", "w", "n", " ", "f", "o", "x">>

IndexChunks ==
    { [ page |-> <<"N">>, page_id |-> None, chunk_id |-> 1,
        header_path |-> NoHeader, content |-> FoxText ],
      [ page |-> <<"N">>, page_id |-> None, chunk_id |-> 2,
        header_path |-> << <<"A">> >>,
        content |-> <<"#", " ", "A", "\n", "a">> ],
      [ page |-> <<"M">>, page_id |-> Rep("0", PageIdLen), chunk_id |-> 1,
        header_path |-> NoHeader, content |-> <<"t", "a", "x">> ] }

IndexBatches == UNION { [1..n -> IndexChunks] : n \in 1..MaxUpsert }

Queries == { FoxText, <<"a">> }

\* top_k arguments, 5 being the default
TopKs == { 1, 5 }

Filters ==
    { NoneFilter,
      [ must |-> << [key |-> "page", value |-> <<"N">>] >>,
        must_not |-> <<>> ],
      [ must |-> <<>>,
        must_not |-> << [key |-> "page", value |-> <<"N">>] >> ],
      [ must |-> << [key |-> "page", value |-> <<"N">>] >>,
        must_not |-> << [key |-> "page_id", value |-> None] >> ],
      [ must |-> <<>>,
        must_not |-> << [key |-> "page", value |-> <<"M">>],
                        [key |-> "header_path", value |-> NoHeader] >> ] }

\* a constructed NotionProcessor and an index that holds no collection
InitIndex ==
    /\ IdleChunker(0, 0)
    /\ base = None
    /\ pc = "idle"
    /\ NoFolder
    /\ FirstRun
    /\ Built
    /\ collections = [n \in {} |-> n]
    /\ index_up = TRUE
    /\ indexed = {}
    /\ NoStore

\* the index goes down or comes back
Outage ==
    /\ index_up' = ~index_up
    /\ UNCHANGED <<embedder, collections, rag_model, attrs, outcome,
                   index_query, create_calls, indexed>>

\* a call without arguments
NoArgs == [none |-> TRUE]

\* client.create_collection: a new empty collection, or a conflict when the
\* name is taken
Created ==
    [n \in DOMAIN collections \cup {CollectionName} |->
        IF n = CollectionName THEN NewCollection ELSE collections[n]]

\* RAGSearch.setup_collection
SetupCollectionAs(op) ==
    /\ outcome' =
          IF ~index_up THEN Raised(op, NoArgs, [error |-> "unreachable"])
          ELSE IF CollectionExists
            THEN Returned(op, NoArgs, [existed |-> TRUE])
          ELSE IF HasCollection
            THEN Raised(op, NoArgs, [error |-> "conflict"])
          ELSE Returned(op, NoArgs, [existed |-> FALSE])
    /\ IF index_up /\ ~CollectionExists
         THEN /\ create_calls' = create_calls + 1
              /\ collections' = IF HasCollection THEN collections ELSE Created
         ELSE UNCHANGED <<collections, create_calls>>
    /\ UNCHANGED <<embedder, index_up, rag_model, attrs, index_query, indexed>>

SetupCollection == SetupCollectionAs("setup_collection")

\* NotionProcessor.setup: self.search.setup_collection()
Setup ==
    /\ GetAttr("setup") = "method"
    /\ GetAttr("search") = "RAGSearch"
    /\ SetupCollectionAs("setup")

\* RAGSearch.search, and search_and_display, which prints what search
\* returned and returns it
SearchAs(op, q, k, f) ==
    LET qv == Encode(rag_model, q)
        sf == SearchFilter(f)
        args == [query |-> q, top_k |-> k, filters |-> f]
    IN /\ index_query' = [vector |-> qv, filter |-> sf, limit |-> k]
       /\ IF index_up /\ HasCollection
            THEN \E r \in Ranked(IndexedPoints, qv, sf, k) :
                    outcome' = Returned(op, args,
                        [results |-> [i \in 1..Len(r) |->
                                        Formatted(qv, IndexedPoints[r[i]])]])
            ELSE outcome' = Raised(op, args, [error |-> "index"])
       /\ UNCHANGED <<embedder, collections, index_up, rag_model, attrs,
                      create_calls, indexed>>

Search(q, k, f) == SearchAs("search", q, k, f)

SearchAndDisplay(q, k, f) == SearchAs("search_and_display", q, k, f)

\* processor.search(query, top_k, filters): a call of whatever the
\* attribute "search" of the processor is
ProcessorSearch(q, k, f) ==
    IF GetAttr("search") = "method"
      THEN SearchAs("NotionProcessor.search", q, k, f)
      ELSE /\ outcome' = Raised("NotionProcessor.search",
                                [query |-> q, top_k |-> k, filters |-> f],
                                [error |-> "TypeError"])
           /\ UNCHANGED <<embedder, collections, index_up, rag_model, attrs,
                          index_query, create_calls, indexed>>

\* client.get_collection(self.collection_name)
GetCollection(op) ==
    IF index_up /\ HasCollection
      THEN Returned(op, NoArgs,
              [ name |-> CollectionName,
                points_count |-> Cardinality(DOMAIN IndexedPoints),
                vectors_count |-> Cardinality(DOMAIN IndexedPoints),
                status |-> "green" ])
      ELSE Raised(op, NoArgs,
              [error |-> IF index_up THEN "not found" ELSE "unreachable"])

\* (mutant) get_collection_info without its try
ExceptPropagates(r) == r

\* except Exception as e: return {"error": str(e)}
ExceptReturned(r) ==
    IF r.status = "raised"
      THEN Returned(r.op, r.args, [error |-> r.value.error])
      ELSE r

\* RAGSearch.get_collection_info
GetCollectionInfoAs(op) ==
    /\ outcome' = ExceptReturned(GetCollection(op))
    /\ UNCHANGED <<embedder, collections, index_up, rag_model, attrs,
                   index_query, create_calls, indexed>>

GetCollectionInfo == GetCollectionInfoAs("get_collection_info")

\* NotionProcessor.get_stats: self.search.get_collection_info()
GetStats ==
    /\ GetAttr("get_stats") = "method"
    /\ GetAttr("search") = "RAGSearch"
    /\ GetCollectionInfoAs("get_stats")

\* points = encode_chunks(chunks); client.upsert(collection_name, points)
EncodeAndUpsert(chs) ==
    LET pts == EncodedPoints(model, chs, 1)
    IN /\ IF index_up /\ HasCollection
            THEN /\ collections' =
                      [collections EXCEPT
                          ![CollectionName].points = Upserted(@, pts)]
                 /\ indexed' = indexed \cup { chs[i] : i \in 1..Len(chs) }
                 /\ outcome' = Returned("upsert", NoArgs,
                                        [count |-> Len(pts)])
            ELSE /\ outcome' = Raised("upsert", NoArgs,
                                      [error |-> "unreachable"])
                 /\ UNCHANGED <<collections, indexed>>
       /\ UNCHANGED <<embedder, index_up, rag_model, attrs, index_query,
                      create_calls>>

NextIndex ==
    \/ Outage /\ UNCHANGED <<chunking, store>>
    \/ SetupCollection /\ UNCHANGED <<chunking, store>>
    \/ Setup /\ UNCHANGED <<chunking, store>>
    \/ \E chs \in IndexBatches : EncodeAndUpsert(chs) /\ UNCHANGED <<chunking, store>>
    \/ \E q \in Queries, k \in TopKs, f \in Filters :
          Search(q, k, f) /\ UNCHANGED <<chunking, store>>
    \/ \E q \in Queries, k \in TopKs, f \in Filters :
          SearchAndDisplay(q, k, f) /\ UNCHANGED <<chunking, store>>
    \/ \E q \in Queries, k \in TopKs, f \in Filters :
          ProcessorSearch(q, k, f) /\ UNCHANGED <<chunking, store>>
    \/ GetCollectionInfo /\ UNCHANGED <<chunking, store>>
    \/ GetStats /\ UNCHANGED <<chunking, store>>

SpecIndex == InitIndex /\ [][NextIndex]_vars

\* ------------------------------------------------ the intermediate store
\* save_chunks_to_jsonl (src/retrieval/chunker.py) and load_chunks_from_jsonl
\* (src/retrieval/embeddings.py): json.dumps and json.loads on characters.

\* the digits of a decimal numeral
Digits == <<"0", "1", "2", "3", "4", "5", "6", "7", "8", "9">>

\* json.dumps of a non-negative int
RECURSIVE JsonInt(_)
JsonInt(n) ==
    IF n < 10 THEN <<Digits[n + 1]>>
    ELSE JsonInt(n \div 10) \o <<Digits[(n % 10) + 1]>>

\* (mutant) a string body written as it is
JsonRaw(t) == t

\* the body of a JSON string: quote, backslash and newline escaped
RECURSIVE JsonEscaped(_)
JsonEscaped(t) ==
    IF t = <<>> THEN <<>>
    ELSE (CASE Head(t) = "\"" -> <<"\\", "\"">>
            [] Head(t) = "\\" -> <<"\\", "\\">>
            [] Head(t) = "\n" -> <<"\\", "n">>
            [] OTHER -> <<Head(t)>>) \o JsonEscaped(Tail(t))

\* json.dumps of a str
JsonString(t) == <<"\"">> \o JsonEscaped(t) \o <<"\"">>

\* json.dumps of a list of str
RECURSIVE JsonItems(_)
JsonItems(l) ==
    IF l = <<>> THEN <<>>
    ELSE IF Len(l) = 1 THEN JsonString(l[1])
    ELSE JsonString(l[1]) \o <<",", " ">> \o JsonItems(Tail(l))

JsonList(l) == <<"[">> \o JsonItems(l) \o <<"]">>

\* json.dumps of page_id: None becomes null
JsonOptional(t) == IF t = None THEN <<"n", "u", "l", "l">> ELSE JsonString(t)

\* json.dumps(chunk, ensure_ascii=False): the keys in insertion order
dumps(chunk) ==
    <<"{", "\"", "p", "a", "g", "e", "\"", ":", " ">> \o JsonString(chunk.page)
    \o <<",", " ", "\"", "p", "a", "g", "e", "_", "i", "d", "\"", ":", " ">> \o JsonOptional(chunk.page_id)
    \o <<",", " ", "\"", "c", "h", "u", "n", "k", "_", "i", "d", "\"", ":", " ">> \o JsonInt(chunk.chunk_id)
    \o <<",", " ", "\"", "h", "e", "a", "d", "e", "r", "_", "p", "a", "t", "h", "\"", ":", " ">> \o JsonList(chunk.header_path)
    \o <<",", " ", "\"", "c", "o", "n", "t", "e", "n", "t", "\"", ":", " ">> \o JsonString(chunk.content)
    \o <<"}">>

\* what save_chunks_to_jsonl writes: json.dumps(chunk) + "\n" per chunk
RECURSIVE SavedText(_)
SavedText(chs) ==
    IF chs = <<>> THEN <<>>
    ELSE dumps(Head(chs)) \o <<"\n">> \o SavedText(Tail(chs))

\* "for line in f": the text cut after each "\n", the rest being a last line
FileLines(text) ==
    LET ends == { i \in 1..Len(text) : text[i] = "\n" \/ i = Len(text) }
        EndOf(k) == CHOOSE e \in ends :
                        Cardinality({ x \in ends : x < e }) = k - 1
        StartOf(k) == IF k = 1 THEN 1 ELSE EndOf(k - 1) + 1
    IN [k \in 1..Cardinality(ends) |-> SubSeq(text, StartOf(k), EndOf(k))]

\* a parse that failed
Failure == [ok |-> FALSE, val |-> [kind |-> "none"], next |-> 0]

\* the first position at or after i that holds no JSON white space
RECURSIVE SkipWs(_, _)
SkipWs(s, i) ==
    IF i <= Len(s) /\ s[i] \in {" ", "\n", "\t", "\r"}
      THEN SkipWs(s, i + 1) ELSE i

\* the text s has the word w at position i
HasWord(s, i, w) ==
    /\ i + Len(w) - 1 <= Len(s)
    /\ \A k \in 1..Len(w) : s[i + k - 1] = w[k]

\* the body of a string from position i to its closing quote
RECURSIVE StrBody(_, _)
StrBody(s, i) ==
    IF i > Len(s) THEN Failure
    ELSE IF s[i] = "\"" THEN [ok |-> TRUE, val |-> <<>>, next |-> i + 1]
    ELSE IF s[i] \in {"\n", "\t", "\r"} THEN Failure
    ELSE IF s[i] = "\\"
      THEN IF i + 1 > Len(s) \/ s[i + 1] \notin {"\"", "\\", "/", "n"}
             THEN Failure
             ELSE LET rest == StrBody(s, i + 2)
                      c == IF s[i + 1] = "n" THEN "\n" ELSE s[i + 1]
                  IN IF rest.ok
                       THEN [rest EXCEPT !.val = <<c>> \o rest.val]
                       ELSE Failure
    ELSE LET rest == StrBody(s, i + 1)
         IN IF rest.ok THEN [rest EXCEPT !.val = <<s[i]>> \o rest.val]
            ELSE Failure

\* the value of the digit c
DigitValue(c) == CHOOSE d \in 0..9 : Digits[d + 1] = c

\* the digits from position i on, acc being the value of those before
RECURSIVE IntBody(_, _, _)
IntBody(s, i, acc) ==
    IF i <= Len(s) /\ s[i] \in {Digits[d] : d \in 1..10}
      THEN IntBody(s, i + 1, 10 * acc + DigitValue(s[i]))
      ELSE [ok |-> TRUE, val |-> [kind |-> "int", v |-> acc], next |-> i]

\* json.loads: a value at position i, then the elements of an array and the
\* members of an object
RECURSIVE ParseValue(_, _), ParseElements(_, _, _), ParseMembers(_, _, _)
ParseValue(s, i0) ==
    LET i == SkipWs(s, i0)
    IN IF i > Len(s) THEN Failure
       ELSE IF s[i] = "\""
         THEN LET r == StrBody(s, i + 1)
              IN IF r.ok
                   THEN [r EXCEPT !.val = [kind |-> "str", v |-> r.val]]
                   ELSE Failure
       ELSE IF HasWord(s, i, <<"n", "u", "l", "l">>)
         THEN [ok |-> TRUE, val |-> [kind |-> "null"], next |-> i + 4]
       ELSE IF s[i] \in {Digits[d] : d \in 1..10}
         THEN IntBody(s, i, 0)
       ELSE IF s[i] = "["
         THEN LET j == SkipWs(s, i + 1)
              IN IF j <= Len(s) /\ s[j] = "]"
                   THEN [ok |-> TRUE, val |-> [kind |-> "list", v |-> <<>>],
                         next |-> j + 1]
                   ELSE ParseElements(s, j, <<>>)
       ELSE IF s[i] = "{"
         THEN LET j == SkipWs(s, i + 1)
              IN IF j <= Len(s) /\ s[j] = "}"
                   THEN [ok |-> TRUE, val |-> [kind |-> "dict", v |-> <<>>],
                         next |-> j + 1]
                   ELSE ParseMembers(s, j, <<>>)
       ELSE Failure

ParseElements(s, i, acc) ==
    LET r == ParseValue(s, i)
        j == SkipWs(s, r.next)
    IN IF ~r.ok \/ j > Len(s) THEN Failure
       ELSE IF s[j] = ","
         THEN ParseElements(s, j + 1, Append(acc, r.val))
       ELSE IF s[j] = "]"
         THEN [ok |-> TRUE,
               val |-> [kind |-> "list", v |-> Append(acc, r.val)],
               next |-> j + 1]
       ELSE Failure

ParseMembers(s, i0, acc) ==
    LET i == SkipWs(s, i0)
        k == IF i <= Len(s) /\ s[i] = "\"" THEN StrBody(s, i + 1) ELSE Failure
        c == SkipWs(s, k.next)
        r == IF k.ok /\ c <= Len(s) /\ s[c] = ":"
               THEN ParseValue(s, c + 1) ELSE Failure
        j == SkipWs(s, r.next)
        member == [key |-> k.val, val |-> r.val]
    IN IF ~r.ok \/ j > Len(s) THEN Failure
       ELSE IF s[j] = ","
         THEN ParseMembers(s, j + 1, Append(acc, member))
       ELSE IF s[j] = "}"
         THEN [ok |-> TRUE,
               val |-> [kind |-> "dict", v |-> Append(acc, member)],
               next |-> j + 1]
       ELSE Failure

\* the keys of a chunk, as json.loads reads them
KeyName(k) ==
    CASE k = <<"p", "a", "g", "e">> -> "page"
      [] k = <<"p", "a", "g", "e", "_", "i", "d">> -> "page_id"
      [] k = <<"c", "h", "u", "n", "k", "_", "i", "d">> -> "chunk_id"
      [] k = <<"h", "e", "a", "d", "e", "r", "_", "p", "a", "t", "h">> -> "header_path"
      [] k = <<"c", "o", "n", "t", "e", "n", "t">> -> "content"
      [] OTHER -> "other"

\* the Python object of a parsed value: str, None, int, list or dict
RECURSIVE PyValue(_)
PyValue(val) ==
    CASE val.kind = "str" -> val.v
      [] val.kind = "null" -> None
      [] val.kind = "int" -> val.v
      [] val.kind = "list" -> [i \in 1..Len(val.v) |-> PyValue(val.v[i])]
      [] val.kind = "dict" ->
            [name \in {KeyName(val.v[i].key) : i \in 1..Len(val.v)} |->
                LET last == CHOOSE i \in 1..Len(val.v) :
                        /\ KeyName(val.v[i].key) = name
                        /\ \A j \in 1..Len(val.v) :
                              KeyName(val.v[j].key) = name => j <= i
                IN PyValue(val.v[last].val)]

\* json.loads(line): the whole line is one value
loads(line) ==
    LET r == ParseValue(line, 1)
    IN IF r.ok /\ SkipWs(line, r.next) > Len(line)
         THEN [ok |-> TRUE, value |-> PyValue(r.val)]
         ELSE [ok |-> FALSE, value |-> <<>>]

\* (mutant) a line that does not parse ends the load with the chunks read
KeepParsed(acc) == [ok |-> TRUE, chunks |-> acc]

\* json.loads raises: the load raises and its list is lost
RaiseOnBadLine(acc) == [ok |-> FALSE, chunks |-> <<>>]

\* load_chunks_from_jsonl on the lines of the file
RECURSIVE LoadLines(_, _)
LoadLines(ls, acc) ==
    IF ls = <<>> THEN [ok |-> TRUE, chunks |-> acc]
    ELSE LET r == loads(Head(ls))
         IN IF r.ok THEN LoadLines(Tail(ls), Append(acc, r.value))
            ELSE RaiseOnBadLine(acc)

\* load_chunks_from_jsonl on a file: open raises when there is none
LoadChunks(file) ==
    IF ~file.exists THEN [ok |-> FALSE, chunks |-> <<>>]
    ELSE LoadLines(FileLines(file.text), <<>>)

\* ------------------------------------------- NotionProcessor: the pipeline
\* process_export, load_to_qdrant and setup_pipeline of
\* src/retrieval/rag_pipeline.py, on a folder, the intermediate chunk file
\* and the index.

\* the chunker and its folder, but for the position of chunk_all_md_files
folder_state == <<locals, chunk_size, chunk_overlap, folder_exists, listing,
                  all_chunks, filename, sources, run, doc, first_run, apps>>

\* the names in the export folder
PipelineNames == { <<"N", ".", "m", "d">>, NotesFile }

\* raw lines of its files: a heading, and a word with a quote and a backslash
PipelineLines == { <<"#", " ", "A">>, <<"a", "\"", "\\">> }

\* a chunk an earlier run left in the intermediate file
StaleChunk ==
    [ page |-> <<"O">>, page_id |-> None, chunk_id |-> 1,
      header_path |-> NoHeader, content |-> <<"o">> ]

\* a line that is not JSON: an object cut short
BadLine == <<"{", "\"", "p", "a", "g", "e", "\"", ":", "\n">>

\* the intermediate file before the run: missing, left by an earlier run,
\* or holding a bad line between two good ones
StoreFiles ==
    { [exists |-> FALSE, text |-> <<>>],
      [exists |-> TRUE, text |-> SavedText(<<StaleChunk>>)],
      [exists |-> TRUE,
       text |-> SavedText(<<StaleChunk>>) \o BadLine
                \o SavedText(<<StaleChunk>>)] }

\* a constructed NotionProcessor, an export folder, an intermediate file and
\* an index without the collection
InitPipeline ==
    /\ IdleChunker(0, 0)
    /\ base = None
    /\ pc = "idle"
    /\ folder_exists \in BOOLEAN
    /\ listing \in { S \in SUBSET PipelineNames : Cardinality(S) <= MaxFiles }
    /\ ~folder_exists => listing = {}
    /\ all_chunks = <<>>
    /\ filename = None
    /\ sources = <<>>
    /\ fpc = "none"
    /\ FirstRun
    /\ Built
    /\ collections = [n \in {} |-> n]
    /\ index_up = TRUE
    /\ indexed = {}
    /\ jsonl \in StoreFiles
    /\ ppc = "idle"
    /\ pipe = "none"
    /\ saved = [done |-> FALSE, chunks |-> <<>>]
    /\ trace = <<>>

\* chunker.chunk_all_md_files(folder), called on its own
ChunkAllCall ==
    /\ ppc = "idle"
    /\ fpc = "none"
    /\ ppc' = "chunking"
    /\ pipe' = "chunk_all_md_files"
    /\ fpc' = "start"
    /\ trace' = <<"chunk_all_md_files">>
    /\ UNCHANGED <<folder_state, embedder, indexing, jsonl, saved>>

\* chunk_all_md_files has raised or returned to its caller
ChunkAllEnd ==
    /\ ppc = "chunking"
    /\ pipe = "chunk_all_md_files"
    /\ fpc \in {"raised", "returned"}
    /\ outcome' = IF fpc = "raised"
                    THEN Raised(pipe, NoArgs, [error |-> "FileNotFoundError"])
                    ELSE Returned(pipe, NoArgs, [chunks |-> all_chunks])
    /\ ppc' = "idle"
    /\ UNCHANGED <<folder_state, fpc, embedder, collections, index_up,
                   rag_model, attrs, index_query, create_calls, indexed,
                   jsonl, pipe, saved, trace>>

\* (mutant) process_export without its os.path.exists test
FolderMissingNever == FALSE

\* not os.path.exists(export_folder)
FolderMissing == ~folder_exists

\* process_export(export_folder) up to its chunk_all_md_files call
ProcessExportCall ==
    /\ ppc = "idle"
    /\ fpc = "none"
    /\ GetAttr("process_export") = "method"
    /\ trace' = <<"process_export">>
    /\ IF FolderMissing
         THEN /\ outcome' = Raised("process_export", NoArgs,
                                   [error |-> "FileNotFoundError"])
              /\ UNCHANGED <<ppc, pipe, fpc>>
         ELSE /\ ppc' = "chunking"
              /\ pipe' = "process_export"
              /\ fpc' = "start"
              /\ UNCHANGED outcome
    /\ UNCHANGED <<folder_state, embedder, collections, index_up, rag_model,
                   attrs, index_query, create_calls, indexed, jsonl, saved>>

\* setup_pipeline(export_folder): self.setup(), then process_export up to
\* its chunk_all_md_files call
SetupPipelineCall ==
    /\ ppc = "idle"
    /\ fpc = "none"
    /\ GetAttr("setup_pipeline") = "method"
    /\ trace' = IF index_up THEN <<"setup", "process_export">> ELSE <<"setup">>
    /\ IF index_up /\ ~CollectionExists
         THEN /\ create_calls' = create_calls + 1
              /\ collections' = IF HasCollection THEN collections ELSE Created
         ELSE UNCHANGED <<collections, create_calls>>
    /\ IF ~index_up
         THEN /\ outcome' = Raised("setup_pipeline", NoArgs,
                                   [error |-> "unreachable"])
              /\ UNCHANGED <<ppc, pipe, fpc>>
         ELSE IF ~CollectionExists /\ HasCollection
           THEN /\ outcome' = Raised("setup_pipeline", NoArgs,
                                     [error |-> "conflict"])
                /\ UNCHANGED <<ppc, pipe, fpc>>
         ELSE IF FolderMissing
           THEN /\ outcome' = Raised("setup_pipeline", NoArgs,
                                     [error |-> "FileNotFoundError"])
                /\ UNCHANGED <<ppc, pipe, fpc>>
         ELSE /\ ppc' = "chunking"
              /\ pipe' = "setup_pipeline"
              /\ fpc' = "start"
              /\ UNCHANGED outcome
    /\ UNCHANGED <<folder_state, embedder, index_up, rag_model, attrs,
                   index_query, indexed, jsonl, saved>>

\* chunk_all_md_files has returned to process_export:
\* save_chunks_to_jsonl(chunks, output_jsonl), and return chunks
ExportSave ==
    /\ ppc = "chunking"
    /\ pipe \in {"process_export", "setup_pipeline"}
    /\ fpc = "returned"
    /\ jsonl' = [exists |-> TRUE, text |-> SavedText(all_chunks)]
    /\ saved' = [done |-> TRUE, chunks |-> all_chunks]
    /\ trace' = Append(trace, "save")
    /\ IF pipe = "process_export"
         THEN /\ outcome' = Returned(pipe, NoArgs, [chunks |-> all_chunks])
              /\ ppc' = "idle"
         ELSE /\ ppc' = "load"
              /\ UNCHANGED outcome
    /\ UNCHANGED <<folder_state, fpc, embedder, collections, index_up,
                   rag_model, attrs, index_query, create_calls, indexed,
                   pipe>>

\* the value load_to_qdrant's caller gets for n points
PipelineValue(op, n) ==
    IF op = "setup_pipeline"
      THEN [chunks |-> Len(all_chunks), points |-> n]
      ELSE [points |-> n]

\* the keys encode_chunks reads of a chunk: chunk["content"], chunk["chunk_id"],
\* chunk["page"], chunk["page_id"], chunk["header_path"]
ChunkKeys == {"content", "chunk_id", "page", "page_id", "header_path"}

\* no subscript of encode_chunks raises KeyError on the chunk
Encodable(chunk) == ChunkKeys \subseteq DOMAIN chunk

\* (mutant) a chunk that cannot be encoded ends the loop with the points
\* built so far
KeepEncoded(acc) == [ok |-> TRUE, points |-> acc]

\* a subscript raises: encode_chunks raises and its points are lost
RaiseOnBadChunk(acc) == [ok |-> FALSE, points |-> <<>>]

\* encode_chunks(chunks): the points of all chunks, or, when a subscript
\* raises on a chunk, what is left of the points built before it
EncodeLoop(m, chs) ==
    LET bad == { i \in 1..Len(chs) : ~Encodable(chs[i]) }
    IN IF bad = {}
         THEN [ok |-> TRUE, points |-> EncodedPoints(m, chs, 1)]
         ELSE LET first == CHOOSE i \in bad : \A j \in bad : i <= j
              IN RaiseOnBadChunk(EncodedPoints(m, SubSeq(chs, 1, first - 1), 1))

\* load_to_qdrant(): load_chunks_from_jsonl, encode_chunks, client.upsert,
\* return len(points)
LoadToQdrantAs(op, stages) ==
    \E r \in {LoadChunks(jsonl)} : \E e \in {EncodeLoop(model, r.chunks)} :
    LET pts == e.points
    IN /\ GetAttr("search") = "RAGSearch"
       /\ IF ~r.ok
            THEN /\ outcome' = Raised(op, NoArgs, [error |-> "load"])
                 /\ trace' = Append(stages, "load")
                 /\ UNCHANGED <<embedder, collections, indexed>>
            ELSE IF ~e.ok
            THEN /\ outcome' = Raised(op, NoArgs, [error |-> "KeyError"])
                 /\ trace' = stages \o <<"load", "encode">>
                 /\ enc_chunks' = r.chunks
                 /\ points' = <<>>
                 /\ UNCHANGED <<model_name, model, epc, returned, model_loads,
                                collections, indexed>>
            ELSE /\ enc_chunks' = r.chunks
                 /\ points' = pts
                 /\ returned' = [op |-> "encode_chunks", value |-> pts]
                 /\ UNCHANGED <<model_name, model, epc, model_loads>>
                 /\ trace' = stages \o <<"load", "encode", "upsert">>
                 /\ IF index_up /\ HasCollection
                      THEN /\ collections' =
                                [collections EXCEPT
                                    ![CollectionName].points = Upserted(@, pts)]
                           /\ indexed' = indexed
                                  \cup { r.chunks[i] : i \in 1..Len(r.chunks) }
                           /\ outcome' = Returned(op, NoArgs,
                                             PipelineValue(op, Len(pts)))
                      ELSE /\ outcome' = Raised(op, NoArgs,
                                                [error |-> "index"])
                           /\ UNCHANGED <<collections, indexed>>
       /\ ppc' = "idle"
       /\ UNCHANGED <<folder_state, fpc, index_up, rag_model, attrs,
                      index_query, create_calls, jsonl, pipe, saved>>

\* load_to_qdrant() called on its own
LoadToQdrant ==
    /\ ppc = "idle"
    /\ GetAttr("load_to_qdrant") = "method"
    /\ LoadToQdrantAs("load_to_qdrant", <<>>)

\* setup_pipeline after process_export: points_count = load_to_qdrant()
PipelineLoad ==
    /\ ppc = "load"
    /\ LoadToQdrantAs("setup_pipeline", trace)

\* embedding_manager.load_chunks_from_jsonl(path) called on its own
LoadChunksCall ==
    /\ ppc = "idle"
    /\ LET r == LoadChunks(jsonl)
       IN outcome' = IF r.ok
                       THEN Returned("load_chunks_from_jsonl", NoArgs,
                                     [chunks |-> r.chunks])
                       ELSE Raised("load_chunks_from_jsonl", NoArgs,
                                   [error |-> "load"])
    /\ trace' = <<"load">>
    /\ UNCHANGED <<folder_state, fpc, embedder, collections, index_up,
                   rag_model, attrs, index_query, create_calls, indexed,
                   jsonl, ppc, pipe, saved>>

NextPipeline ==
    \/ ChunkAllCall
    \/ ChunkAllEnd
    \/ ProcessExportCall
    \/ SetupPipelineCall
    \/ FolderNotFound
    \/ ListFolder
    \/ \E f \in PipelineNames : OpenFile(f)
    \/ \E line \in PipelineLines : MoreFileLines /\ ReadHeader(line)
    \/ \E line \in PipelineLines : MoreFileLines /\ ReadContent(line)
    \/ fpc = "in_file" /\ Return
    \/ ExtendAll
    \/ ReturnAll
    \/ ExportSave
    \/ PipelineLoad
    \/ LoadToQdrant
    \/ LoadChunksCall

SpecPipeline == InitPipeline /\ [][NextPipeline]_vars

\* --------------------------------- load_to_qdrant on its own (SpecLoad)

\* a record that json.loads reads but encode_chunks cannot: no "content"
KeylessLine == <<"{", "\"", "p", "a", "g", "e", "\"", ":", " ", "\"", "O", "\"", "}", "\n">>

\* a second chunk of the page of StaleChunk
NextChunk ==
    [ page |-> <<"O">>, page_id |-> None, chunk_id |-> 2,
      header_path |-> NoHeader, content |-> <<"p">> ]

\* the intermediate file: missing, two chunks, a line that is not JSON
\* after a chunk, a record without content after a chunk
LoadFiles ==
    { [exists |-> FALSE, text |-> <<>>],
      [exists |-> TRUE, text |-> SavedText(<<StaleChunk, NextChunk>>)],
      [exists |-> TRUE,
       text |-> SavedText(<<StaleChunk>>) \o BadLine \o SavedText(<<NextChunk>>)],
      [exists |-> TRUE,
       text |-> SavedText(<<StaleChunk>>) \o KeylessLine
                \o SavedText(<<NextChunk>>)] }

\* a constructed NotionProcessor, an intermediate file, and an index
\* without the collection
InitLoad ==
    /\ IdleChunker(0, 0)
    /\ base = None
    /\ pc = "idle"
    /\ NoFolder
    /\ FirstRun
    /\ Built
    /\ collections = [n \in {} |-> n]
    /\ index_up = TRUE
    /\ indexed = {}
    /\ jsonl \in LoadFiles
    /\ ppc = "idle"
    /\ pipe = "none"
    /\ saved = [done |-> FALSE, chunks |-> <<>>]
    /\ trace = <<>>

NextLoad ==
    \/ Outage /\ UNCHANGED <<chunking, store>>
    \/ Setup /\ UNCHANGED <<chunking, store>>
    \/ \E chs \in IndexBatches : EncodeAndUpsert(chs) /\ UNCHANGED <<chunking, store>>
    \/ LoadToQdrant
    \/ LoadChunksCall

SpecLoad == InitLoad /\ [][NextLoad]_vars

\* ------------------------------------- the ingestion CLI (SpecCli)
\* handle_log_command of src/ingestion/cli.py: classify_database,
\* get_database_module and the module's create_from_text are calls out of
\* the function; each returns or raises.

\* the chunker, its folder and the retrieval objects
chunker_state == <<locals, chunk_size, chunk_overlap, folder_exists, listing,
                   all_chunks, filename, fpc, sources, run, doc, first_run>>
beside_ingestion == <<chunker_state, embedder, indexing, store, syncing>>
beside_syncing == <<chunker_state, embedder, indexing, store, ingestion>>

\* DATABASE_INFO["name"] of the modules of the db package
DatabaseNames == {"health", "knowledge"}

\* texts handed to the log command
LogTexts == { <<"S", "l", "e", "p", "t", " ", "8">>, <<"P", "y">>, <<" ">>, <<>> }

\* page ids create_from_text returns
NewPageIds == { <<"i", "d", "1">>, <<"i", "d", "2">>, <<"i", "d", "3">> }

\* what classify_database raises: the completion call failed, or its answer
\* names no database
ClassifyErrors == { "api", "invalid classification" }

\* what create_from_text raises: field extraction failed, or Notion refused
CreateErrors == { "extract_fields", "pages.create" }

\* no call of the CLI is under way in a fresh process
InitCli ==
    /\ IdleChunker(0, 0)
    /\ base = None
    /\ pc = "idle"
    /\ NoFolder
    /\ FirstRun
    /\ Unbuilt

\* (mutant) except ValueError: only the "Unknown database" error is caught
CaughtValueError(e) == e = "ValueError"

\* except Exception as e: every error the calls raise is caught
Caught(e) == TRUE

\* an exception e raised inside the try: print the error and sys.exit(1),
\* or, uncaught, end the process with a traceback
Fail(e) ==
    /\ printed' = IF Caught(e)
                    THEN Append(printed, [kind |-> "Error saving entry", reason |-> e])
                    ELSE printed
    /\ exit_code' = <<1>>
    /\ cli_pc' = "exited"

\* handle_log_command(text) is called, at most MaxLogCalls times in one
\* process
HandleLogCommand(t) ==
    /\ cli_pc \in {"idle", "returned"}
    /\ exit_code = <<>>
    /\ Len(printed) < MaxLogCalls
    /\ cli_pc' = "classify"
    /\ cli_text' = t
    /\ db_name' = None
    /\ UNCHANGED <<exit_code, printed, created, beside_ingestion>>

\* db_name = classify_database(text)
ClassifyDatabase(name) ==
    /\ cli_pc = "classify"
    /\ db_name' = name
    /\ cli_pc' = "lookup"
    /\ UNCHANGED <<cli_text, exit_code, printed, created, beside_ingestion>>

\* classify_database(text) raises
ClassifyRaises(e) ==
    /\ cli_pc = "classify"
    /\ Fail(e)
    /\ UNCHANGED <<cli_text, db_name, created, beside_ingestion>>

\* db_module = get_database_module(db_name); None raises ValueError
GetDatabaseModule(found) ==
    /\ cli_pc = "lookup"
    /\ IF found
         THEN /\ cli_pc' = "create"
              /\ UNCHANGED <<exit_code, printed>>
         ELSE Fail("ValueError")
    /\ UNCHANGED <<cli_text, db_name, created, beside_ingestion>>

\* get_database_module(db_name) raises
GetDatabaseModuleRaises ==
    /\ cli_pc = "lookup"
    /\ Fail("registry")
    /\ UNCHANGED <<cli_text, db_name, created, beside_ingestion>>

\* page_id = db_module.create_from_text(text); print the success message
CreateFromText(id) ==
    /\ cli_pc = "create"
    /\ created' = Append(created, [module |-> db_name, text |-> cli_text])
    /\ printed' = Append(printed, [kind |-> "Saved to", db |-> db_name, id |-> id])
    /\ cli_pc' = "returned"
    /\ UNCHANGED <<cli_text, db_name, exit_code, beside_ingestion>>

\* db_module.create_from_text(text) raises
CreateFromTextRaises(e) ==
    /\ cli_pc = "create"
    /\ created' = Append(created, [module |-> db_name, text |-> cli_text])
    /\ Fail(e)
    /\ UNCHANGED <<cli_text, db_name, beside_ingestion>>

NextCli ==
    \/ \E t \in LogTexts : HandleLogCommand(t)
    \/ \E name \in DatabaseNames : ClassifyDatabase(name)
    \/ \E e \in ClassifyErrors : ClassifyRaises(e)
    \/ \E found \in BOOLEAN : GetDatabaseModule(found)
    \/ GetDatabaseModuleRaises
    \/ \E id \in NewPageIds : CreateFromText(id)
    \/ \E e \in CreateErrors : CreateFromTextRaises(e)

SpecCli == InitCli /\ [][NextCli]_vars

\* ------------------------------- Notion synchronization (SpecSync)
\* NotionSyncManager of src/sync/notion_sync.py. Notion is the pages of one
\* database, each with a title, a last_edited_time and the user who edited
\* it last; a database query, a page retrieval, a content extraction and a
\* file save each succeed or fail. Times are readings of one clock.

\* the pages of the database
SyncPageIds == { <<"p", "-", "1">>, <<"p", "-", "2">> }

\* database_id of the database
SyncDatabaseId == <<"d", "b">>

\* titles a page may be given
PageTitles == { <<"T">>, <<"U", "!">> }

\* the users who edit pages
Editors == { "human", "ai" }

\* NotionSyncManager.ai_user_ids
AiUserIds == { "ai" }

\* how the processing of one page in sync_database ends
Fates == { "processed", "no content", "save failed" }

\* the characters of the titles that are neither \w nor \s nor "-"
Removed(c) == c \in { "!", "/", ":", "." }

\* re.sub(r'[^\w\s-]', '', title).strip()
SafeTitle(title) == strip(SelectSeq(title, LAMBDA c : ~Removed(c)))

\* page["id"].replace('-', '')
NoDashes(id) == SelectSeq(id, LAMBDA c : c # "-")

\* f"{safe_title} {page_id}.md", the name of a page's file in output_dir
Filename(title, id) ==
    SafeTitle(title) \o <<" ">> \o NoDashes(id) \o <<".", "m", "d">>

\* a map with the entry of key k set to v
Put(map, k, v) ==
    [x \in DOMAIN map \cup {k} |-> IF x = k THEN v ELSE map[x]]

\* _find_file_by_page_id: the filepath recorded for the page, if it is
\* recorded, not None, and names a file that exists
FindFileByPageId(meta, files, p) ==
    IF /\ p \in DOMAIN meta.pages
       /\ meta.pages[p].filepath # None
       /\ meta.pages[p].filepath \in DOMAIN files
    THEN meta.pages[p].filepath
    ELSE None

\* _save_as_markdown: the file the page is written to
MarkdownPath(meta, files, p) ==
    IF FindFileByPageId(meta, files, p) # None
      THEN FindFileByPageId(meta, files, p)
      ELSE Filename(notion_pages[p].title, p)

\* what _save_as_markdown writes: the front matter of the page
Markdown(p) ==
    [ notion_id |-> p,
      title |-> notion_pages[p].title,
      last_edited |-> notion_pages[p].last_edited_time,
      synced_at |-> now ]

\* _update_page_metadata(page, database_id, filepath)
PageMetadata(p, path) ==
    [ last_edited |-> notion_pages[p].last_edited_time,
      database_id |-> SyncDatabaseId,
      title |-> notion_pages[p].title,
      filepath |-> path,
      synced_at |-> now ]

\* the pages the query yields for the "after" of last_sync (<<>>: no
\* filter), less those whose last editor is an AI user
HumanEditedPages(last_sync) ==
    { p \in DOMAIN notion_pages :
        /\ last_sync = <<>> \/ notion_pages[p].last_edited_time > last_sync[1]
        /\ notion_pages[p].last_edited_by \notin AiUserIds }

\* the pages of ps saved one after the other, from the files files
RECURSIVE SavedFiles(_, _, _)
SavedFiles(meta, files, ps) ==
    IF ps = {} THEN files
    ELSE LET p == CHOOSE q \in ps : TRUE
         IN SavedFiles(meta, Put(files, MarkdownPath(meta, files, p), Markdown(p)),
                       ps \ {p})

\* the metadata entries after the pages of ps were saved and recorded
RECURSIVE UpdatedPages(_, _, _)
UpdatedPages(meta, files, ps) ==
    IF ps = {} THEN meta.pages
    ELSE LET p == CHOOSE q \in ps : TRUE
         IN Put(UpdatedPages(meta, files, ps \ {p}), p,
                PageMetadata(p, MarkdownPath(meta, files, p)))

\* (mutant) last_sync is advanced by every call that found pages
AdvancesAlways(done) == TRUE

\* if processed_count > 0
Advances(done) == done # {}

\* sync_database on the metadata meta: what it leaves behind
Synced(meta, query_ok, fates) ==
    IF ~query_ok
      THEN [ raised |-> TRUE, metadata |-> meta, md_files |-> md_files,
             metadata_file |-> metadata_file, filter |-> meta.last_sync,
             human_edited |-> {}, processed |-> {} ]
      ELSE LET found == HumanEditedPages(meta.last_sync)
               done == { p \in found : fates[p] = "processed" }
               after == IF found # {} /\ Advances(done)
                          THEN [ pages |-> UpdatedPages(meta, md_files, done),
                                 last_sync |-> <<now>> ]
                          ELSE [ meta EXCEPT
                                   !.pages = UpdatedPages(meta, md_files, done) ]
           IN [ raised |-> FALSE,
                metadata |-> after,
                md_files |-> SavedFiles(meta, md_files, done),
                metadata_file |-> IF found # {} /\ Advances(done)
                                    THEN [exists |-> TRUE, data |-> after]
                                    ELSE metadata_file,
                filter |-> meta.last_sync,
                human_edited |-> found,
                processed |-> done ]

\* the record of a call: what it was, how it ended, the "after" of its
\* query, the pages get_human_edited_pages returned, the pages it processed
CallRecord(op, r) ==
    [ op |-> op,
      status |-> IF r.raised THEN "raised" ELSE "returned",
      filter |-> r.filter,
      human_edited |-> r.human_edited,
      processed |-> r.processed ]

\* no NotionSyncManager yet, in a fresh process
InitSync ==
    /\ IdleChunker(0, 0)
    /\ base = None
    /\ pc = "idle"
    /\ NoFolder
    /\ FirstRun
    /\ Unbuilt

\* NotionSyncManager(): no metadata file exists, so _load_metadata gives no
\* pages and no last_sync; the pages of the database are as last edited
NotionSyncManager(editors) ==
    /\ sync_result.op = "none"
    /\ notion_pages' = [p \in SyncPageIds |->
                          [ title |-> <<"T">>, last_edited_time |-> 0,
                            last_edited_by |-> editors[p] ]]
    /\ now' = 1
    /\ metadata' = [pages |-> [p \in {} |-> p], last_sync |-> <<>>]
    /\ sync_result' = [op |-> "__init__"]
    /\ UNCHANGED <<metadata_file, md_files, pending, beside_syncing>>

\* somebody edits a page in Notion, perhaps changing its title
Edit(p, editor, title) ==
    /\ sync_result.op # "none"
    /\ now <= MaxClock
    /\ notion_pages' = [notion_pages EXCEPT ![p] =
                          [ title |-> title, last_edited_time |-> now,
                            last_edited_by |-> editor ]]
    /\ now' = now + 1
    /\ pending' = pending \ {p}
    /\ UNCHANGED <<metadata, metadata_file, md_files, sync_result,
                   beside_syncing>>

\* sync_database(database_id, processor): the query raises, or the pages it
\* returns are processed one after the other, each with its fate
SyncDatabase(query_ok, fates) ==
    /\ sync_result.op # "none"
    /\ now <= MaxClock
    /\ LET r == Synced(metadata, query_ok, fates)
       IN /\ metadata' = r.metadata
          /\ md_files' = r.md_files
          /\ metadata_file' = r.metadata_file
          /\ sync_result' = CallRecord("sync_database", r)
          /\ pending' = IF r.raised THEN pending
                        ELSE IF r.processed # {}
                          THEN r.human_edited \ r.processed
                          ELSE {}
    /\ now' = now + 1
    /\ UNCHANGED <<notion_pages, beside_syncing>>

\* the metadata without the pages of the database, and without last_sync
Cleared(meta) ==
    [ pages |-> [p \in { q \in DOMAIN meta.pages :
                          meta.pages[q].database_id # SyncDatabaseId }
                   |-> meta.pages[p]],
      last_sync |-> <<>> ]

\* force_full_sync(database_id, processor)
ForceFullSync(query_ok, fates) ==
    /\ sync_result.op # "none"
    /\ now <= MaxClock
    /\ LET old_last_sync == metadata.last_sync
           r == Synced(Cleared(metadata), query_ok, fates)
       IN /\ metadata' = IF ~r.raised /\ r.processed = {} /\ old_last_sync # <<>>
                           THEN [r.metadata EXCEPT !.last_sync = old_last_sync]
                           ELSE r.metadata
          /\ md_files' = r.md_files
          /\ metadata_file' = r.metadata_file
          /\ sync_result' = CallRecord("force_full_sync", r)
          /\ pending' = IF r.raised THEN pending
                        ELSE IF r.processed # {}
                          THEN r.human_edited \ r.processed
                          ELSE {}
    /\ now' = now + 1
    /\ UNCHANGED <<notion_pages, beside_syncing>>

\* sync_page_before_ai_edit(page_id): the condition under which
\* the page is synced
EditedSinceSync(p) ==
    /\ p \in DOMAIN metadata.pages
    /\ notion_pages[p].last_edited_time > metadata.pages[p].last_edited
    /\ notion_pages[p].last_edited_by \notin AiUserIds

\* sync_page_before_ai_edit(page_id): retrieving the page or
\* extracting its content may fail, and so may the save, whose result is
\* not looked at; the metadata entry is written without a filepath
SyncPageBeforeAiEdit(p, retrieve_ok, content_ok, save_ok) ==
    /\ sync_result.op # "none"
    /\ now <= MaxClock
    /\ LET synced == retrieve_ok /\ EditedSinceSync(p) /\ content_ok
       IN /\ md_files' = IF synced /\ save_ok
                           THEN Put(md_files, MarkdownPath(metadata, md_files, p),
                                    Markdown(p))
                           ELSE md_files
          /\ metadata' = IF synced
                           THEN [metadata EXCEPT
                                   !.pages = Put(@, p, PageMetadata(p, None))]
                           ELSE metadata
          /\ sync_result' = [ op |-> "sync_page_before_ai_edit",
                              status |-> "returned",
                              filter |-> <<>>,
                              human_edited |-> IF retrieve_ok /\ EditedSinceSync(p)
                                                 THEN {p} ELSE {},
                              processed |-> IF synced THEN {p} ELSE {} ]
          /\ pending' = IF synced THEN pending \ {p} ELSE pending
    /\ now' = now + 1
    /\ UNCHANGED <<notion_pages, metadata_file, beside_syncing>>

NextSync ==
    \/ \E editors \in [SyncPageIds -> Editors] : NotionSyncManager(editors)
    \/ \E p \in SyncPageIds, editor \in Editors, title \in PageTitles :
         Edit(p, editor, title)
    \/ \E query_ok \in BOOLEAN, fates \in [SyncPageIds -> Fates] :
         SyncDatabase(query_ok, fates)
    \/ \E query_ok \in BOOLEAN, fates \in [SyncPageIds -> Fates] :
         ForceFullSync(query_ok, fates)
    \/ \E p \in SyncPageIds, retrieve_ok, content_ok, save_ok \in BOOLEAN :
         SyncPageBeforeAiEdit(p, retrieve_ok, content_ok, save_ok)

SpecSync == InitSync /\ [][NextSync]_vars

\* ------------------------------------------- vocabulary of the properties

\* the non-blank lines of a document, each stripped, in document order
StrippedLines(text) ==
    SelectSeq([i \in 1..Len(text) |-> strip(text[i])], LAMBDA l : l # <<>>)

\* the heading lines among the stripped lines of a document
HeadingLines(text) == SelectSeq(StrippedLines(text), IsHeader)

\* a text cut at its "\n" characters
RECURSIVE SplitLines(_)
SplitLines(text) ==
    IF \A i \in 1..Len(text) : text[i] # "\n" THEN <<text>>
    ELSE LET k == CHOOSE i \in 1..Len(text) :
                     /\ text[i] = "\n"
                     /\ \A j \in 1..(i - 1) : text[j] # "\n"
         IN <<SubSeq(text, 1, k - 1)>> \o SplitLines(Tail_from(text, k + 1))

\* the lines of emitted chunk k
ContentLines(k) == SplitLines(chunks[k].content)

\* the lines of emitted chunk k without the heading line that a forced
\* split re-injected at its top
OwnLines(k) == IF emitted[k].seeded THEN Tail(ContentLines(k)) ELSE ContentLines(k)

\* the buffer without a re-injected heading line
OwnBuffer == IF cur.seeded THEN Tail(current_chunk) ELSE current_chunk

\* OwnLines of chunks 1..n, one after the other
RECURSIVE OwnLinesUpTo(_)
OwnLinesUpTo(n) == IF n = 0 THEN <<>> ELSE OwnLinesUpTo(n - 1) \o OwnLines(n)

\* the sum of the word counts of a sequence of lines
RECURSIVE Words(_)
Words(ls) == IF ls = <<>> THEN 0 ELSE WordCount(Head(ls)) + Words(Tail(ls))

\* the header path the rule "first L-1 entries of the previous path, then
\* the title" yields after the headings of a document
RECURSIVE PathAfter(_)
PathAfter(text) ==
    IF text = <<>> THEN <<>>
    ELSE LET prev == PathAfter(SubSeq(text, 1, Len(text) - 1))
             l == strip(text[Len(text)])
         IN IF l # <<>> /\ IsHeader(l)
            THEN [i \in 1..Min(HeaderLevel(l) - 1, Len(prev)) |-> prev[i]]
                     \o <<HeaderText(l)>>
            ELSE prev

\* ---------------------------------------------------------------- claims

\* C1: the chunk_id values of the chunks returned by chunk_md_file are
\* exactly 1..N in emission order, and a flush whose trimmed content is
\* empty consumes no id (the next id is always one more than the number of
\* chunks emitted).
C1_ChunkIdsDense ==
    /\ \A k \in 1..Len(chunks) : chunks[k].chunk_id = k
    /\ chunk_id = Len(chunks) + 1

\* C1 witness: a document without heading whose two lines each forced a
\* split has returned; the closing flush was empty and took no id.
C1_Witness ==
    /\ pc = "done"
    /\ header = None
    /\ Len(chunks) = 2
    /\ Len(StrippedLines(lines)) = 2
    /\ chunk_id = 3

\* C2: at a heading of level L and title T the header path is the first
\* L-1 entries of the previous path followed by T; a chunk that starts at a
\* heading carries the path of that heading; and for the headings H1 "A",
\* H2 "B", H2 "C", H3 "D" the path is <<A, C>> at "C" and <<A, C, D>> at "D".
C2_HeaderPath ==
    /\ header_path = PathAfter(lines)
    /\ \A k \in 1..Len(chunks) :
          emitted[k].origin > 0 /\ IsHeader(strip(lines[emitted[k].origin]))
              => chunks[k].header_path = PathAfter(SubSeq(lines, 1, emitted[k].origin))
    /\ HeadingLines(lines) = << <<"#", " ", "A">>, <<"#", "#", " ", "B">>,
                                <<"#", "#", " ", "C">>, <<"#", "#", "#", " ", "D">> >>
          => /\ header_path = << <<"A">>, <<"C">>, <<"D">> >>
             /\ \A k \in 1..Len(chunks) :
                   ContentLines(k)[1] = <<"#", "#", " ", "C">>
                       => chunks[k].header_path = << <<"A">>, <<"C">> >>
             /\ \A k \in 1..Len(chunks) :
                   ContentLines(k)[1] = <<"#", "#", "#", " ", "D">>
                       => chunks[k].header_path = << <<"A">>, <<"C">>, <<"D">> >>

\* C2 witness: the document of the four headings has returned, with the
\* chunks of "C" and "D" emitted.
C2_Witness ==
    /\ pc = "done"
    /\ HeadingLines(lines) = << <<"#", " ", "A">>, <<"#", "#", " ", "B">>,
                                <<"#", "#", " ", "C">>, <<"#", "#", "#", " ", "D">> >>
    /\ Len(chunks) = 4
    /\ chunks[3].header_path = << <<"A">>, <<"C">> >>
    /\ chunks[4].header_path = << <<"A">>, <<"C">>, <<"D">> >>

\* the section of C3 has been read to its end: a heading line and 12
\* one-word content lines
SectionRead == pc = "done" /\ Len(lines) = 13

\* content lines a chunk of the section takes beside a heading line of w
\* words before the count reaches 5
LinesPerChunk(w) == IF w >= 4 THEN 1 ELSE 5 - w

\* C3 (as claimed): with chunk_size=5, a heading line followed by 12
\* one-word content lines yields exactly 3 chunks, chunks 2 and 3 beginning
\* with the heading line.
C3_ThreeChunks ==
    SectionRead =>
        /\ Len(chunks) = 3
        /\ ContentLines(2)[1] = lines[1]
        /\ ContentLines(3)[1] = lines[1]

\* C3 (amended): the heading line's own w words count toward chunk_size, so
\* with n = max(1, 5 - w) the section yields 12/n chunks holding the heading
\* line and n content lines each, then one chunk holding the re-injected
\* heading line alone: 5 chunks for a two-word heading line. Every chunk
\* after the first begins with the heading line.
C3_SplitSection ==
    SectionRead =>
        LET n == LinesPerChunk(WordCount(lines[1]))
            body == Tail(StrippedLines(lines))
        IN /\ Len(chunks) = (12 \div n) + 1
           /\ WordCount(lines[1]) = 2 => Len(chunks) = 5
           /\ \A k \in 1..(12 \div n) :
                 ContentLines(k) = <<lines[1]>> \o SubSeq(body, (k - 1) * n + 1, k * n)
           /\ ContentLines(Len(chunks)) = <<lines[1]>>
           /\ \A k \in 2..Len(chunks) : ContentLines(k)[1] = lines[1]

\* C3 witness: the section under a two-word heading line has been chunked
\* into its 5 chunks.
C3_Witness ==
    /\ SectionRead
    /\ WordCount(lines[1]) = 2
    /\ Len(chunks) = 5
    /\ \A k \in 2..5 : emitted[k].seeded

\* the place of the last space of base, if base has a space and exactly 32
\* characters after its last one; 0 otherwise
IdCut ==
    IF \E k \in 1..Len(base) :
          /\ base[k] = " "
          /\ \A j \in (k + 1)..Len(base) : base[j] # " "
          /\ Len(base) - k = 32
    THEN Len(base) - 32
    ELSE 0

EarlierOfFile(i) ==
    Cardinality({ j \in 1..(i - 1) : sources[j] = sources[i] })

\* C8 (as claimed): no two chunks of the list chunk_all_md_files returns
\* share the same (page, chunk_id) pair.
C8_UniquePerPage ==
    \A i, j \in 1..Len(all_chunks) :
        i < j => <<all_chunks[i].page, all_chunks[i].chunk_id>>
                    # <<all_chunks[j].page, all_chunks[j].chunk_id>>

\* C8 (amended): chunk numbering restarts at 1 for each file and chunk_id
\* is unique per file: the chunks of one file are numbered 1, 2, ... in
\* list order and no two of them share a chunk_id.
C8_UniquePerFile ==
    /\ Len(sources) = Len(all_chunks)
    /\ \A i \in 1..Len(all_chunks) :
          all_chunks[i].chunk_id = EarlierOfFile(i) + 1
    /\ \A i, j \in 1..Len(all_chunks) :
          i < j /\ sources[i] = sources[j]
              => all_chunks[i].chunk_id # all_chunks[j].chunk_id

\* C8 witness: chunk_all_md_files has returned the chunks of two files of
\* the same page, the first of them with two chunks; numbering restarted.
C8_Witness ==
    /\ fpc = "returned"
    /\ Len(all_chunks) >= 3
    /\ sources[1] = sources[2]
    /\ sources[2] # sources[3]
    /\ all_chunks[2].page = all_chunks[3].page
    /\ all_chunks[2].chunk_id = 2
    /\ all_chunks[3].chunk_id = 1

\* C10: two runs of chunk_md_file on the same file with the same
\* chunk_size return identical chunk lists, whatever chunk_overlap the two
\* chunkers were constructed with.
C10_OverlapIndependent ==
    (run = 2 /\ pc = "done") => chunks = first_run.chunks

\* C10 witness: a second run under another chunk_overlap has returned, on
\* a file whose chunking forced a split with two lines already buffered.
C10_Witness ==
    /\ run = 2
    /\ pc = "done"
    /\ chunk_overlap # first_run.chunk_overlap
    /\ \E k \in 1..Len(chunks) :
          /\ Len(ContentLines(k)) >= 3
          /\ Words(ContentLines(k)) >= chunk_size

\* C4: chunk coverage: without the heading lines re-injected at forced
\* splits, the lines of the emitted chunks (and of the buffer, while the
\* document is being read) are exactly the non-blank lines of the document,
\* stripped, in order, each once; hence the words agree in number as well.
C4_Coverage ==
    /\ Len(emitted) = Len(chunks)
    /\ OwnLinesUpTo(Len(chunks)) \o OwnBuffer = StrippedLines(lines)
    /\ pc = "done" =>
          /\ current_chunk = <<>>
          /\ OwnLinesUpTo(Len(chunks)) = StrippedLines(lines)
          /\ Words(OwnLinesUpTo(Len(chunks))) = Words(lines)

\* C4 witness: a returned document with a blank line, a padded line and a
\* continuation chunk that holds body text below the re-injected heading.
C4_Witness ==
    /\ pc = "done"
    /\ \E i \in 1..Len(lines) : strip(lines[i]) = <<>>
    /\ \E i \in 1..Len(lines) : strip(lines[i]) # lines[i] /\ strip(lines[i]) # <<>>
    /\ \E k \in 1..Len(chunks) : emitted[k].seeded /\ Len(ContentLines(k)) >= 2

\* C5 (as claimed): a chunk whose content is a heading line alone is
\* emitted only for a heading of the document that no content line follows
\* before the next heading or the end of the document.
C5_NoHeaderOnlyChunkInSectionWithBody ==
    pc = "done" =>
        \A k \in 1..Len(chunks) :
            Len(ContentLines(k)) = 1 /\ IsHeader(ContentLines(k)[1])
                => /\ ~emitted[k].seeded
                   /\ LET rest == StrippedLines(Tail_from(lines, emitted[k].origin + 1))
                      IN rest = <<>> \/ IsHeader(rest[1])

\* C6: a document whose non-blank lines are all headings yields one chunk
\* per heading, in order, holding exactly that heading line; and no emitted
\* chunk of any document has empty content.
C6_HeadingsOnly ==
    /\ \A k \in 1..Len(chunks) : chunks[k].content # <<>>
    /\ (pc = "done" /\ HeadingLines(lines) = StrippedLines(lines))
          => /\ Len(chunks) = Len(HeadingLines(lines))
             /\ \A k \in 1..Len(chunks) : chunks[k].content = HeadingLines(lines)[k]

\* C6 witness: a returned document of three headings and nothing else but
\* a blank line.
C6_Witness ==
    /\ pc = "done"
    /\ HeadingLines(lines) = StrippedLines(lines)
    /\ Len(HeadingLines(lines)) = 3
    /\ Len(lines) = 4
    /\ Len(chunks) = 3

\* C7 (as claimed): in every emitted chunk each entry of header_path is the
\* title of a heading of strictly shallower level than the entry after it.
C7_PathStrictlyNested ==
    \A k \in 1..Len(chunks) :
        \A i \in 1..(Len(emitted[k].levels) - 1) :
            emitted[k].levels[i] < emitted[k].levels[i + 1]

\* C11: encode_chunks returns exactly one point per input chunk, in input
\* order: the i-th point's id is the i-th chunk's chunk_id and its payload
\* holds that chunk's page, page_id, header_path and content unchanged.
\* Stated on the loop as well: the points built so far are the points of
\* the chunks passed so far.
PointOfChunk(pt, chunk) ==
    /\ pt.id = chunk.chunk_id
    /\ pt.payload.page = chunk.page
    /\ pt.payload.page_id = chunk.page_id
    /\ pt.payload.header_path = chunk.header_path
    /\ pt.payload.content = chunk.content
    /\ DOMAIN pt.payload = {"page", "page_id", "header_path", "content"}

C11_OnePointPerChunk ==
    /\ epc = "encode_chunks" =>
          /\ Len(points) <= Len(enc_chunks)
          /\ \A i \in 1..Len(points) : PointOfChunk(points[i], enc_chunks[i])
    /\ (epc = "idle" /\ returned.op = "encode_chunks") =>
          /\ Len(returned.value) = Len(enc_chunks)
          /\ \A i \in 1..Len(enc_chunks) :
                PointOfChunk(returned.value[i], enc_chunks[i])

\* encode_chunks has returned the points of three chunks of two pages, the
\* first two of them sharing chunk_id 1
C11_Witness ==
    /\ epc = "idle"
    /\ returned.op = "encode_chunks"
    /\ Len(returned.value) = 3
    /\ returned.value[1].id = 1
    /\ returned.value[2].id = 1
    /\ returned.value[1].payload.page # returned.value[2].payload.page
    /\ returned.value[3].id = 2

\* C12: embedding-model loading is lazy and cached: a constructed
\* EmbeddingManager on which no encode call has been made has loaded no
\* model, and no instance loads the model more than once.
C12_LazyLoading ==
    /\ (epc = "idle" /\ returned.op = "none") =>
          (model = None /\ model_loads = 0)
    /\ model_loads <= 1

\* C13: setup_collection is idempotent.  While the index answers it does
\* not raise; on an existing collection it makes no create call and leaves
\* the collection and its points as they were, whatever was upserted
\* before; otherwise it makes one create call, for an empty collection of
\* size 384 and cosine distance; and a call that follows a call creates
\* nothing.
C13_SetupIdempotent ==
    [][ (SetupCollection /\ index_up) =>
          /\ outcome'.status = "returned"
          /\ HasCollection =>
                (collections' = collections /\ create_calls' = create_calls)
          /\ ~HasCollection =>
                /\ create_calls' = create_calls + 1
                /\ DOMAIN collections' = DOMAIN collections \cup {CollectionName}
                /\ collections'[CollectionName] =
                      [size |-> 384, distance |-> "Cosine", points |-> <<>>]
          /\ (outcome.op = "setup_collection" /\ outcome.status = "returned")
                => (collections' = collections /\ create_calls' = create_calls)
       ]_vars

\* setup_collection has returned on a collection that holds two points: the
\* one create call is the one that made the collection
C13_Witness ==
    /\ outcome.op = "setup_collection"
    /\ outcome.status = "returned"
    /\ outcome.value.existed
    /\ create_calls = 1
    /\ Cardinality(DOMAIN IndexedPoints) = 2

\* C14: RAGSearch.search hands the caller's filter to the index unchanged,
\* and when must_not holds a condition that every indexed point matches,
\* search returns the empty list, for every query and top_k.
C14_FilterHandedOn ==
    (outcome.op = "search" /\ outcome.status = "returned") =>
        /\ index_query.filter = outcome.args.filters
        /\ index_query.limit = outcome.args.top_k
        /\ LET f == outcome.args.filters
           IN (/\ f # NoneFilter
               /\ \E k \in 1..Len(f.must_not) :
                     \A id \in DOMAIN IndexedPoints :
                        Matches(IndexedPoints[id], f.must_not[k]))
              => Len(outcome.value.results) = 0

\* a search with top_k 5 under a must_not condition that both indexed
\* points match has returned
C14_Witness ==
    /\ outcome.op = "search"
    /\ outcome.status = "returned"
    /\ outcome.args.top_k = 5
    /\ Cardinality(DOMAIN IndexedPoints) = 2
    /\ outcome.args.filters # NoneFilter
    /\ \E k \in 1..Len(outcome.args.filters.must_not) :
          \A id \in DOMAIN IndexedPoints :
             Matches(IndexedPoints[id], outcome.args.filters.must_not[k])
    /\ Len(outcome.value.results) = 0

\* C15: get_collection_info, and get_stats through it, never raises: it
\* returns a dictionary with "error" when the collection is missing or the
\* index call fails, otherwise the collection's name, point count and
\* status; and it changes nothing in the index.
C15_InfoNeverRaises ==
    [][ (GetCollectionInfo \/ GetStats) =>
          /\ outcome'.status = "returned"
          /\ IF index_up /\ HasCollection
               THEN /\ {"name", "points_count", "status"}
                          \subseteq DOMAIN outcome'.value
                    /\ outcome'.value.name = CollectionName
                    /\ outcome'.value.points_count =
                          Cardinality(DOMAIN IndexedPoints)
               ELSE "error" \in DOMAIN outcome'.value
          /\ collections' = collections
          /\ create_calls' = create_calls
       ]_vars

\* get_stats has returned an error dictionary from an index that is down
\* and holds points
C15_Witness ==
    /\ outcome.op = "get_stats"
    /\ outcome.status = "returned"
    /\ "error" \in DOMAIN outcome.value
    /\ ~index_up
    /\ HasCollection
    /\ Cardinality(DOMAIN IndexedPoints) >= 1

\* C16: the query flow works on any constructed NotionProcessor: calling
\* its search operation returns the results of search_and_display, and
\* ends in no error but one the index raised.
C16_QueryFlowWorks ==
    outcome.op = "NotionProcessor.search" =>
        \/ outcome.status = "returned" /\ "results" \in DOMAIN outcome.value
        \/ outcome.status = "raised" /\ outcome.value.error = "index"

\* C20: after a chunk with content "the quick brown fox" and an unrelated
\* chunk were indexed through encode_chunks and upsert, a search for "the
\* quick brown fox" without filter returns the first chunk as its top
\* result, with a score at least that of every other result.
C20_FoxTopOne ==
    (/\ outcome.op = "search"
     /\ outcome.status = "returned"
     /\ outcome.args.query = FoxText
     /\ outcome.args.filters = NoneFilter
     /\ \E c, d \in indexed : c.content = FoxText /\ d.content # FoxText)
    => LET results == outcome.value.results
       IN /\ Len(results) >= 1
          /\ results[1].content = FoxText
          /\ \A i \in 1..Len(results) : results[1].score >= results[i].score

\* the intermediate file holds a line that json.loads rejects
HasBadLine(file) ==
    /\ file.exists
    /\ \E i \in 1..Len(FileLines(file.text)) :
          ~loads(FileLines(file.text)[i]).ok

\* C17: when the source folder does not exist, process_export, and
\* chunk_all_md_files, fail with file-not-found before producing anything:
\* no chunk is returned, the intermediate chunk file is neither created nor
\* overwritten, and setup_pipeline, which fails the same way, performs no
\* upsert.
C17_NoFolderNoOutput ==
    [][ ~folder_exists =>
          /\ (ProcessExportCall \/ SetupPipelineCall) =>
                /\ outcome'.status = "raised"
                /\ outcome'.value.error = "FileNotFoundError"
                /\ "chunks" \notin DOMAIN outcome'.value
                /\ ppc' = "idle"
                /\ jsonl' = jsonl
                /\ saved' = saved
                /\ all_chunks' = <<>>
                /\ indexed' = indexed
                /\ \A i \in 1..Len(trace') : trace'[i] \notin {"save", "upsert"}
                /\ HasCollection => collections' = collections
                /\ \A n \in DOMAIN collections' \ DOMAIN collections :
                      collections'[n].points = <<>>
          /\ FolderNotFound =>
                (fpc' = "raised" /\ all_chunks' = <<>> /\ jsonl' = jsonl)
          /\ ChunkAllEnd =>
                /\ outcome'.status = "raised"
                /\ outcome'.value.error = "FileNotFoundError"
       ]_vars

\* setup_pipeline has raised file-not-found on a missing folder, after its
\* setup step created the collection; the intermediate file of an earlier
\* run is still there
C17_Witness ==
    /\ ~folder_exists
    /\ outcome.op = "setup_pipeline"
    /\ outcome.status = "raised"
    /\ outcome.value.error = "FileNotFoundError"
    /\ jsonl.exists
    /\ HasCollection
    /\ create_calls = 1
    /\ IndexedPoints = <<>>

\* C18: if any line of the intermediate chunk file fails to parse,
\* load_chunks_from_jsonl aborts the whole load with an error and returns
\* no chunks, not even those of the well-formed lines before the bad one,
\* and load_to_qdrant then embeds nothing and upserts nothing.
C18_BadLineAbortsLoad ==
    [][ (HasBadLine(jsonl) /\ (LoadChunksCall \/ LoadToQdrant \/ PipelineLoad))
          => /\ outcome'.status = "raised"
             /\ outcome'.value.error = "load"
             /\ "chunks" \notin DOMAIN outcome'.value
             /\ enc_chunks' = enc_chunks
             /\ points' = points
             /\ returned' = returned
             /\ collections' = collections
             /\ indexed' = indexed
             /\ \A i \in 1..Len(trace') : trace'[i] \notin {"encode", "upsert"}
       ]_vars

\* load_to_qdrant has raised on a file whose first line is well formed and
\* whose second is not, the collection being there to take points
C18_Witness ==
    /\ outcome.op = "load_to_qdrant"
    /\ outcome.status = "raised"
    /\ outcome.value.error = "load"
    /\ HasBadLine(jsonl)
    /\ loads(FileLines(jsonl.text)[1]).ok
    /\ ~loads(FileLines(jsonl.text)[2]).ok
    /\ HasCollection
    /\ IndexedPoints = <<>>

\* C19: the intermediate store round-trips.  Once save_chunks_to_jsonl has
\* written a chunk list, the file holds exactly one line per chunk, in list
\* order, whatever it held before, and load_chunks_from_jsonl returns a
\* list equal to the saved one (trace tells that the load was the last call).
C19_StoreRoundTrip ==
    /\ saved.done =>
          /\ jsonl.exists
          /\ Len(FileLines(jsonl.text)) = Len(saved.chunks)
          /\ \A i \in 1..Len(saved.chunks) :
                LET r == loads(FileLines(jsonl.text)[i])
                IN r.ok /\ r.value = saved.chunks[i]
    /\ (saved.done /\ outcome.op = "load_chunks_from_jsonl"
           /\ trace = <<"load">>) =>
          /\ outcome.status = "returned"
          /\ outcome.value.chunks = saved.chunks

\* load_chunks_from_jsonl has returned the two chunks process_export saved:
\* one of a page with identifier, one of a page without, one of them with a
\* newline, a quote and a backslash in its content
C19_Witness ==
    /\ saved.done
    /\ trace = <<"load">>
    /\ outcome.op = "load_chunks_from_jsonl"
    /\ outcome.status = "returned"
    /\ Len(outcome.value.chunks) = 2
    /\ \E i, j \in 1..2 :
          /\ outcome.value.chunks[i].page_id = None
          /\ outcome.value.chunks[j].page_id # None
    /\ \E i \in 1..2 :
          LET c == outcome.value.chunks[i].content
          IN {"\n", "\"", "\\"} \subseteq { c[k] : k \in 1..Len(c) }

\* the lines of a chunk's content that are not heading lines
BodyLines(content) == SelectSeq(SplitLines(content), LAMBDA l : ~IsHeader(l))

\* C22: a forced split happens exactly when, right after a content line is
\* appended, the words of the buffer (heading line included) number at least
\* chunk_size. After the split the buffer holds the current heading line
\* alone (nothing if no heading was seen) and the counter is that line's
\* word count. A chunk emitted by a split holds at least chunk_size words,
\* and an emitted chunk with two or more content lines holds fewer than
\* chunk_size words without its last content line.
C22_ForcedSplit ==
    [][ /\ lines' # lines /\ strip(lines'[Len(lines')]) # <<>>
            /\ ~IsHeader(strip(lines'[Len(lines')]))
          => LET buf == Append(current_chunk, strip(lines'[Len(lines')])) IN
             /\ Len(chunks') = Len(chunks) + 1 <=> Words(buf) >= chunk_size
             /\ Len(chunks') = Len(chunks) \/ Len(chunks') = Len(chunks) + 1
             /\ Len(chunks') = Len(chunks) + 1 =>
                   /\ chunks'[Len(chunks')].content = Join(buf)
                   /\ Words(SplitLines(chunks'[Len(chunks')].content)) >= chunk_size
                   /\ current_chunk' = IF header = None THEN <<>> ELSE <<header>>
                   /\ word_count' = Words(current_chunk')
             /\ Len(chunks') = Len(chunks) =>
                   /\ current_chunk' = buf
                   /\ word_count' = Words(buf)
        /\ Len(chunks') > Len(chunks) =>
              LET content == chunks'[Len(chunks')].content
                  all == SplitLines(content)
              IN Len(BodyLines(content)) >= 2
                    => /\ ~IsHeader(all[Len(all)])
                       /\ Words(SubSeq(all, 1, Len(all) - 1)) < chunk_size
      ]_vars

\* C22 witness: a first chunk of two content lines was split off, and a
\* split below a heading has left the buffer holding that heading line
\* alone, which fills the budget by itself.
C22_Witness ==
    /\ pc = "loop"
    /\ Len(chunks) = 2
    /\ Len(BodyLines(chunks[1].content)) = 2
    /\ Words(SplitLines(chunks[1].content)) >= chunk_size
    /\ cur.seeded
    /\ header # None
    /\ current_chunk = <<header>>
    /\ word_count = WordCount(header)
    /\ word_count >= chunk_size

\* the header_path a chunk flushed after the lines read so far must carry
SnapshotPath == IF PathAfter(lines) = <<>> THEN NoHeader ELSE PathAfter(lines)

\* C23: the header_path of an emitted chunk is a snapshot of the path in
\* force for the lines it holds: a chunk flushed because a heading arrived
\* carries the path from before that heading, a chunk emitted before the
\* first heading carries ["No Header"], and no later step changes a chunk
\* that was emitted.
C23_PathSnapshot ==
    [][ /\ Len(chunks') >= Len(chunks)
        /\ \A k \in 1..Len(chunks) : chunks'[k] = chunks[k]
        /\ Len(chunks') > Len(chunks) =>
              /\ Len(chunks') = Len(chunks) + 1
              /\ chunks'[Len(chunks')].header_path = SnapshotPath
              /\ chunks'[Len(chunks')].header_path =
                    IF header_path = <<>> THEN NoHeader ELSE header_path
              /\ HeadingLines(lines) = <<>>
                    => chunks'[Len(chunks')].header_path = NoHeader
      ]_vars

\* C23 witness: a chunk above the first heading, then the chunk of "# A"
\* flushed when "## B" arrived, then the chunk of "## B"; the chunk of "# A"
\* kept the path <<A>> after the path became <<A, B>>.
C23_Witness ==
    /\ pc = "done"
    /\ Len(chunks) = 3
    /\ ~IsHeader(StrippedLines(lines)[1])
    /\ chunks[1].header_path = NoHeader
    /\ chunks[2].header_path = << <<"A">> >>
    /\ chunks[2].content = <<"#", " ", "A">>
    /\ chunks[3].header_path = << <<"A">>, <<"B">> >>
    /\ header_path = << <<"A">>, <<"B">> >>

\* C24 (as claimed): every emitted chunk starts with its section's heading:
\* if its header_path is not ["No Header"], the first line of its content is
\* a heading line whose title is the last element of header_path and no
\* other line of it is a heading line; if its header_path is ["No Header"],
\* no line of its content is a heading line.
C24_StartsWithHeading ==
    \A k \in 1..Len(chunks) :
        LET cl == ContentLines(k)
            hp == chunks[k].header_path
        IN IF hp # NoHeader
           THEN /\ IsHeader(cl[1])
                /\ HeaderText(cl[1]) = hp[Len(hp)]
                /\ \A i \in 2..Len(cl) : ~IsHeader(cl[i])
           ELSE \A i \in 1..Len(cl) : ~IsHeader(cl[i])

\* C25 (as claimed): after setup_pipeline, or load_to_qdrant after
\* process_export, into an empty collection, the collection holds as many
\* points as the pipeline returns, which is the number of chunks produced,
\* and every chunk of the run still has its own point in the collection.
C25_OnePointPerChunkIndexed ==
    (/\ outcome.op \in {"setup_pipeline", "load_to_qdrant"}
     /\ outcome.status = "returned"
     /\ saved.done)
    => /\ outcome.value.points = Len(saved.chunks)
       /\ Cardinality(DOMAIN IndexedPoints) = outcome.value.points
       /\ outcome.op = "setup_pipeline"
             => outcome.value.chunks = outcome.value.points
       /\ \A i \in 1..Len(saved.chunks) :
             \E id \in DOMAIN IndexedPoints :
                 PointOfChunk([id |-> id, payload |-> IndexedPoints[id].payload],
                              saved.chunks[i])

\* the number of "upsert" stages of a trace
UpsertsIn(stages) == Cardinality({ i \in 1..Len(stages) : stages[i] = "upsert" })

\* the intermediate file cannot be loaded, or holds a record encode_chunks
\* cannot embed
LoadOrEmbedFails(file) ==
    \/ ~LoadChunks(file).ok
    \/ \E i \in 1..Len(LoadChunks(file).chunks) :
          ~Encodable(LoadChunks(file).chunks[i])

\* C26: load_to_qdrant issues at most one upsert per call, and only after
\* every chunk record was loaded and embedded: the one batch holds a point
\* for each record of the file. If loading or embedding fails at any chunk,
\* no upsert is issued and the collection is left as it was.
C26_UpsertAfterAllEmbedded ==
    [][ (LoadToQdrant \/ PipelineLoad) =>
          /\ UpsertsIn(trace') <= 1
          /\ UpsertsIn(trace') = 1 =>
                /\ LoadChunks(jsonl).ok
                /\ enc_chunks' = LoadChunks(jsonl).chunks
                /\ Len(points') = Len(enc_chunks')
                /\ Len(enc_chunks') = Len(FileLines(jsonl.text))
                /\ \A i \in 1..Len(points') : PointOfChunk(points'[i], enc_chunks'[i])
                /\ trace'[Len(trace')] = "upsert"
                /\ HasCollection /\ index_up =>
                      collections'[CollectionName].points
                          = Upserted(IndexedPoints, points')
          /\ LoadOrEmbedFails(jsonl) =>
                /\ UpsertsIn(trace') = 0
                /\ collections' = collections
                /\ indexed' = indexed
                /\ outcome'.status = "raised"
          /\ collections' # collections => UpsertsIn(trace') = 1
      ]_vars

\* C26 witness: load_to_qdrant has raised at the second record of a file,
\* which has no content, after the first was embedded; the collection, there
\* and reachable, still holds the two points it held before.
C26_Witness ==
    /\ outcome.op = "load_to_qdrant"
    /\ outcome.status = "raised"
    /\ outcome.value.error = "KeyError"
    /\ LoadChunks(jsonl).ok
    /\ Encodable(LoadChunks(jsonl).chunks[1])
    /\ ~Encodable(LoadChunks(jsonl).chunks[2])
    /\ index_up
    /\ HasCollection
    /\ Cardinality(DOMAIN IndexedPoints) = 2
    /\ \A id \in DOMAIN IndexedPoints :
          IndexedPoints[id].payload.page # StaleChunk.page

\* the messages printed so far whose text holds what
Messages(what) == SelectSeq(printed, LAMBDA msg : msg.kind = what)

\* C21: handle_log_command ends in exactly one of two outcomes. On success
\* create_from_text of the selected module was called exactly once, with
\* the original text, and exactly one "Saved to" message was printed. If
\* classification, module lookup or record creation failed, exactly one
\* "Error saving entry" message was printed, no success message, and the
\* process exited with code 1. Nothing is printed before the end.
C21_OneOutcome ==
    [][ /\ (cli_pc' = "returned" /\ cli_pc # "returned") =>
              /\ created' = Append(created, [module |-> db_name, text |-> cli_text])
              /\ Len(printed') = Len(printed) + 1
              /\ printed'[Len(printed')].kind = "Saved to"
              /\ printed'[Len(printed')].db = db_name
              /\ exit_code' = <<>>
        /\ (cli_pc' = "exited" /\ cli_pc # "exited") =>
              /\ Len(printed') = Len(printed) + 1
              /\ printed'[Len(printed')].kind = "Error saving entry"
              /\ exit_code' = <<1>>
              /\ \/ created' = created
                 \/ /\ cli_pc = "create"
                    /\ created' = Append(created, [module |-> db_name,
                                                   text |-> cli_text])
        /\ cli_pc' \in {"classify", "lookup", "create"} =>
              /\ printed' = printed
              /\ created' = created
              /\ exit_code' = <<>>
        /\ cli_pc = "exited" => UNCHANGED ingestion
        /\ cli_pc' \in {"returned", "exited"}
              => cli_pc # cli_pc' /\ cli_pc \in {"classify", "lookup", "create"}
      ]_vars

\* C21 witness: a second call in the same process, the first having
\* succeeded, has exited with code 1 because create_from_text raised.
C21_Witness ==
    /\ cli_pc = "exited"
    /\ exit_code = <<1>>
    /\ Len(created) = 2
    /\ created[1].text # created[2].text
    /\ Len(Messages("Saved to")) = 1
    /\ Len(Messages("Error saving entry")) = 1
    /\ printed[2] = [kind |-> "Error saving entry", reason |-> "pages.create"]

\* the metadata entry of page p differs before and after the step
EntryChanged(p) ==
    \/ (p \in DOMAIN metadata'.pages) # (p \in DOMAIN metadata.pages)
    \/ /\ p \in DOMAIN metadata'.pages
       /\ p \in DOMAIN metadata.pages
       /\ metadata'.pages[p] # metadata.pages[p]

\* after the step the file recorded for page p exists and holds the page as
\* it is in Notion
SavedAsRecorded(p) ==
    /\ p \in DOMAIN metadata'.pages
    /\ metadata'.pages[p].filepath \in DOMAIN md_files'
    /\ md_files'[metadata'.pages[p].filepath] = Markdown(p)

\* C27: a sync_database call changes the metadata entry of a page only if
\* the query returned and the page's content was extracted and its file
\* saved in this call; it advances last_sync and rewrites the metadata file
\* only if it processed a page; a call that processes no page leaves the
\* metadata in memory and the metadata file as they were.
C27_SyncFrame ==
    [][ \A query_ok \in BOOLEAN, fates \in [SyncPageIds -> Fates] :
          SyncDatabase(query_ok, fates) =>
            /\ \A p \in SyncPageIds :
                 EntryChanged(p) =>
                   /\ query_ok
                   /\ fates[p] = "processed"
                   /\ SavedAsRecorded(p)
            /\ (metadata'.last_sync # metadata.last_sync
                  \/ metadata_file' # metadata_file)
                 => sync_result'.processed # {}
            /\ sync_result'.processed = {}
                 => metadata' = metadata /\ metadata_file' = metadata_file
      ]_vars

\* a sync_database call has processed one page and failed on another
C27_Witness ==
    /\ sync_result.op = "sync_database"
    /\ sync_result.processed # {}
    /\ sync_result.human_edited \ sync_result.processed # {}
    /\ metadata.last_sync = <<now - 1>>
    /\ metadata_file.exists
    /\ DOMAIN metadata.pages = sync_result.processed

\* C28: no human edit is lost by a partial failure: a page that a
\* sync_database call failed on while it processed another page, and that
\* was not edited since, is among the pages get_human_edited_pages returns
\* to the next sync_database call.
C28_FailedPageReturnedAgain ==
    [][ \A fates \in [SyncPageIds -> Fates] :
          SyncDatabase(TRUE, fates) => pending \subseteq sync_result'.human_edited
      ]_vars

\* the markdown files written for page p
FilesOf(p) == { f \in DOMAIN md_files : md_files[f].notion_id = p }

\* the step wrote the file f for page p
Wrote(p, f) ==
    /\ f \in DOMAIN md_files'
    /\ md_files'[f].notion_id = p
    /\ f \in DOMAIN md_files => md_files'[f] # md_files[f]

\* C29: whatever calls were made on the NotionSyncManager, at most one
\* markdown file has been written per page id, and after every save of a
\* page its metadata entry records the file that was written.
C29_OneFilePerPage ==
    [][ /\ \A p \in SyncPageIds : Cardinality(FilesOf(p))' <= 1
        /\ \A p \in SyncPageIds : \A f \in DOMAIN md_files' :
             Wrote(p, f) => /\ p \in DOMAIN metadata'.pages
                            /\ metadata'.pages[p].filepath = f
      ]_vars

\* C30: force_full_sync queries the database without a last-edited-time
\* filter, and when it ends without having processed a page, by returning
\* or by the query raising, last_sync holds the value it had before the call.
C30_FullSyncKeepsLastSync ==
    [][ \A query_ok \in BOOLEAN, fates \in [SyncPageIds -> Fates] :
          ForceFullSync(query_ok, fates) =>
            /\ sync_result'.filter = <<>>
            /\ sync_result'.processed = {}
                 => metadata'.last_sync = metadata.last_sync
      ]_vars

====
